---- MODULE Spec2Model ----
(***************************************************************************)
(* Model of the mcp-test harness: the suite registration API and the       *)
(* sequential runner of src/src/runner.ts, the Call Recorder and the mock  *)
(* server of mock.ts and the assertion engine of expect.ts.  They are      *)
(* independent: each has its variables and its specification.              *)
(*                                                                         *)
(* Suites live in a heap (the sequence `suites`); a suite is referred to   *)
(* by its index, as the code refers to it by object reference.  A suite's  *)
(* name is its index and a test's name is the number of its declaration    *)
(* among the tests.  A user function is identified by where it was         *)
(* registered: the body of test n is <<"test", n, 0>>, the k-th hook of a  *)
(* hook list of suite s is <<list, s, k>>.  What a user function does when *)
(* it is awaited is an input of the runner: it completes or it throws,     *)
(* chosen at the call.  An error thrown by a user function is identified   *)
(* by that function.                                                       *)
(*                                                                         *)
(* Registration and run are the two phases of one cycle of a host: the     *)
(* registration API is called while no run is in progress (test and hook   *)
(* functions do not declare suites or tests), and clearSuites is called    *)
(* between two suite definitions, not from inside a definition action.     *)
(***************************************************************************)
EXTENDS Integers, Sequences, FiniteSets, TLC

\* At most this many suites, tests and hooks are registered at a time.
MaxObjects == 4

\* null of `currentSuite: Suite | null`
Null == 0
\* absent `error?: Error` of a TestResult
NoError == <<"none", 0, 0>>

VARIABLES
    suites,        \* heap of Suite objects, by reference
    rootSuites,    \* const rootSuites: Suite[]
    currentSuite,  \* let currentSuite: Suite | null
    nextTest,      \* number of the next test declaration
    defStack,      \* describe calls whose definition action is executing
    exc,           \* exception propagating through the registration code
    cleared,       \* whether clearSuites was called with no suite registered since, and what it dropped
    runState,      \* "idle", "running", "returned" or "thrown" (the promise of runAllTests)
    results,       \* runAllTests: const results: TestSuiteResult[]
    rootIdx,       \* runAllTests: position of the for loop over rootSuites
    runStack,      \* runSuite invocations, outermost first
    returned,      \* value the promise of runAllTests resolved to
    thrown,        \* error the promise of runAllTests rejected with
    log,           \* user functions awaited by the current run, once settled, in order
    inFlight,      \* user functions the run has called that have not settled yet
    previous       \* what the run before this one executed and reported, when this run
                   \* was started right after that one had returned; NoRun otherwise

vars == <<suites, rootSuites, currentSuite, nextTest, defStack, exc, cleared,
          runState, results, rootIdx, runStack, returned, thrown, log, inFlight,
          previous>>

regVars == <<suites, rootSuites, currentSuite, nextTest, defStack, exc, cleared>>
runVars == <<runState, results, rootIdx, runStack, returned, thrown, log, inFlight,
             previous>>

\* The Call Recorder (mock.ts)
VARIABLES
    mock,       \* the MockFunction under observation
    pending,    \* invocations of mock.execute suspended at `await this.implementation(...)`
    obj,        \* obj[method] of the object a spy is put on: "original" or "wrapper"
    delegated,  \* the calls the original method of obj has received
    last,       \* the last operation on the recorder and what its caller got from it
    script,     \* how many invocations and how many mutators the test has performed
    pristine,   \* the options of the recorder and the arguments of its invocations, while
                \* it has only been invoked, one invocation after the other
    shadow,     \* since mockReturnValueOnce(v): v and the behaviour it was put in front of;
                \* and the values of the mockReturnValueOnce calls made before any
                \* invocation, in their order, with the behaviour before the first
    fixed       \* since mockReturnValue(v): v, and whether it replaced a one-shot override
                \* that no invocation had consumed

mockVars == <<mock, pending, obj, delegated, last, script, pristine, shadow, fixed>>

\* The assertion engine (expect.ts)
VARIABLES
    chain,      \* the ExpectImpl objects of an expectation: expect(value), then one more
                \* for every `.not`
    matcher,    \* the matcher called last, the object of the chain it was called on and
                \* its arguments
    verdict     \* how that call ended: "pass", "fail", "usage" or "error"; "none" before it

expectVars == <<chain, matcher, verdict>>

\* What the registration API and the runner never touch.
\* The mock server (createMockServer of mock.ts)
VARIABLES
    mockServer,   \* { server, mocks }, the value createMockServer returned
    recorders,    \* heap of the MockFunction objects createMockServer made, by reference
    waiting,      \* invocations of a server callable suspended at the await of execute
    serverConfig, \* the config createMockServer was called with
    served        \* the last operation on the server, and the recorders invoked so far

serverVars == <<mockServer, recorders, waiting, serverConfig, served>>

libVars == <<mockVars, expectVars, serverVars>>

----------------------------------------------------------------------------
(* Registration API                                                        *)

NewSuite(name, skip, only) ==
    [name |-> name, tests |-> <<>>, beforeEach |-> <<>>, afterEach |-> <<>>,
     beforeAll |-> <<>>, afterAll |-> <<>>, suites |-> <<>>,
     skip |-> skip, only |-> only]

TestFn(name) == <<"test", name, 0>>
HookFn(list, suite, k) == <<list, suite, k>>

NewTest(name, skip, only) ==
    [name |-> name, fn |-> TestFn(name), skip |-> skip, only |-> only]

RECURSIVE NumHooks(_)
NumHooks(s) ==
    IF s = 0 THEN 0
    ELSE Len(suites[s].beforeEach) + Len(suites[s].afterEach)
         + Len(suites[s].beforeAll) + Len(suites[s].afterAll) + NumHooks(s - 1)

\* Suites, tests and hooks registered so far.
Objects == Len(suites) + (nextTest - 1) + NumHooks(Len(suites))

\* The test and hook functions registered so far.
Registered ==
    UNION {{suites[s].tests[k].fn : k \in 1..Len(suites[s].tests)}
           \cup {suites[s].beforeEach[k] : k \in 1..Len(suites[s].beforeEach)}
           \cup {suites[s].afterEach[k] : k \in 1..Len(suites[s].afterEach)}
           \cup {suites[s].beforeAll[k] : k \in 1..Len(suites[s].beforeAll)}
           \cup {suites[s].afterAll[k] : k \in 1..Len(suites[s].afterAll)}
           : s \in 1..Len(suites)}

NotCleared == [now |-> FALSE, dropped |-> {}]

\* if (currentSuite) currentSuite.suites.push(suite) else rootSuites.push(suite)
Attach(skip, only) ==
    LET id == Len(suites) + 1 IN
    IF currentSuite # Null
      THEN /\ suites' = Append([suites EXCEPT ![currentSuite].suites = Append(@, id)],
                               NewSuite(id, skip, only))
           /\ rootSuites' = rootSuites
      ELSE /\ suites' = Append(suites, NewSuite(id, skip, only))
           /\ rootSuites' = Append(rootSuites, id)

\* previousSuite = currentSuite; currentSuite = suite; the definition action starts
EnterDefinition(callee) ==
    LET id == Len(suites) + 1 IN
    /\ defStack' = Append(defStack, [callee |-> callee, suite |-> id,
                                     previousSuite |-> currentSuite])
    /\ currentSuite' = id

Registering == runState = "idle" /\ exc = "none"

Describe ==
    /\ Registering
    /\ Objects < MaxObjects
    /\ Attach(FALSE, FALSE)
    /\ EnterDefinition("describe")
    /\ cleared' = NotCleared
    /\ UNCHANGED <<nextTest, exc>>
    /\ UNCHANGED <<runVars, libVars>>

DescribeSkipEnters ==
    /\ Registering
    /\ Objects < MaxObjects
    /\ Attach(TRUE, FALSE)
    /\ EnterDefinition("describe.skip")
    /\ cleared' = NotCleared
    /\ UNCHANGED <<nextTest, exc>>
    /\ UNCHANGED <<runVars, libVars>>

\* describe.skip: the suite is attached, its definition action is not called
DescribeSkip ==
    /\ Registering
    /\ Objects < MaxObjects
    /\ Attach(TRUE, FALSE)
    /\ cleared' = NotCleared
    /\ UNCHANGED <<currentSuite, nextTest, defStack, exc>>
    /\ UNCHANGED <<runVars, libVars>>

DescribeOnly ==
    /\ Registering
    /\ Objects < MaxObjects
    /\ Attach(FALSE, TRUE)
    /\ EnterDefinition("describe.only")
    /\ cleared' = NotCleared
    /\ UNCHANGED <<nextTest, exc>>
    /\ UNCHANGED <<runVars, libVars>>

\* finally { currentSuite = previousSuite }
FinallyKeeps(frame) == frame.suite
Finally(frame) == frame.previousSuite

\* The definition action returns; describe leaves through its finally block.
DescribeReturn ==
    /\ Registering
    /\ defStack # <<>>
    /\ currentSuite' = Finally(defStack[Len(defStack)])
    /\ defStack' = SubSeq(defStack, 1, Len(defStack) - 1)
    /\ UNCHANGED <<suites, rootSuites, nextTest, exc, cleared>>
    /\ UNCHANGED <<runVars, libVars>>

\* The definition action throws something of its own.
DefinitionThrows ==
    /\ Registering
    /\ defStack # <<>>
    /\ exc' = "definition failed"
    /\ UNCHANGED <<suites, rootSuites, currentSuite, nextTest, defStack, cleared>>
    /\ UNCHANGED <<runVars, libVars>>

\* An exception leaves describe through its finally block and reaches the caller.
DescribeUnwind ==
    /\ runState = "idle"
    /\ exc # "none"
    /\ defStack # <<>>
    /\ currentSuite' = Finally(defStack[Len(defStack)])
    /\ defStack' = SubSeq(defStack, 1, Len(defStack) - 1)
    /\ UNCHANGED <<suites, rootSuites, nextTest, exc, cleared>>
    /\ UNCHANGED <<runVars, libVars>>

\* The exception is caught: by a try/catch of the enclosing definition action, or by
\* the host that loads the test file.
Catch ==
    /\ runState = "idle"
    /\ exc # "none"
    /\ exc' = "none"
    /\ UNCHANGED <<suites, rootSuites, currentSuite, nextTest, defStack, cleared>>
    /\ UNCHANGED <<runVars, libVars>>

DeclareTestFallback(msg, skip, only) ==
    /\ Registering
    /\ LET target == IF currentSuite = Null /\ rootSuites # <<>>
                        THEN rootSuites[Len(rootSuites)] ELSE currentSuite IN
       IF target = Null
         THEN /\ exc' = msg
              /\ UNCHANGED <<suites, nextTest>>
         ELSE /\ Objects < MaxObjects
              /\ suites' = [suites EXCEPT ![target].tests =
                               Append(@, NewTest(nextTest, skip, only))]
              /\ nextTest' = nextTest + 1
              /\ exc' = exc
    /\ UNCHANGED <<rootSuites, currentSuite, defStack, cleared>>
    /\ UNCHANGED <<runVars, libVars>>

DeclareTest(msg, skip, only) ==
    /\ Registering
    /\ IF currentSuite = Null
         THEN /\ exc' = msg
              /\ UNCHANGED <<suites, nextTest>>
         ELSE /\ Objects < MaxObjects
              /\ suites' = [suites EXCEPT ![currentSuite].tests =
                               Append(@, NewTest(nextTest, skip, only))]
              /\ nextTest' = nextTest + 1
              /\ exc' = exc
    /\ UNCHANGED <<rootSuites, currentSuite, defStack, cleared>>
    /\ UNCHANGED <<runVars, libVars>>

Test == DeclareTest("test() must be called inside describe()", FALSE, FALSE)

TestSkip == DeclareTest("test.skip() must be called inside describe()", TRUE, FALSE)

TestOnly == DeclareTest("test.only() must be called inside describe()", FALSE, TRUE)

PushHook(s, list, fn) ==
    CASE list = "beforeEach" -> [s EXCEPT !.beforeEach = Append(@, fn)]
      [] list = "afterEach"  -> [s EXCEPT !.afterEach = Append(@, fn)]
      [] list = "beforeAll"  -> [s EXCEPT !.beforeAll = Append(@, fn)]
      [] list = "afterAll"   -> [s EXCEPT !.afterAll = Append(@, fn)]

NumHooksOf(s, list) ==
    CASE list = "beforeEach" -> Len(s.beforeEach)
      [] list = "afterEach"  -> Len(s.afterEach)
      [] list = "beforeAll"  -> Len(s.beforeAll)
      [] list = "afterAll"   -> Len(s.afterAll)

DeclareHook(msg, list) ==
    /\ Registering
    /\ IF currentSuite = Null
         THEN /\ exc' = msg
              /\ UNCHANGED <<suites, nextTest>>
         ELSE /\ Objects < MaxObjects
              /\ suites' = [suites EXCEPT ![currentSuite] =
                               PushHook(@, list, HookFn(list, currentSuite, NumHooksOf(@, list) + 1))]
              /\ nextTest' = nextTest
              /\ exc' = exc
    /\ UNCHANGED <<rootSuites, currentSuite, defStack, cleared>>
    /\ UNCHANGED <<runVars, libVars>>

BeforeEach == DeclareHook("beforeEach() must be called inside describe()", "beforeEach")

AfterEach == DeclareHook("afterEach() must be called inside describe()", "afterEach")

BeforeAll == DeclareHook("beforeAll() must be called inside describe()", "beforeAll")

AfterAll == DeclareHook("afterAll() must be called inside describe()", "afterAll")

\* rootSuites.length = 0; currentSuite = null.  Called by a host between two
\* registration cycles, when no describe call is executing: no suite object is
\* referenced any more, the heap is empty again and declarations are numbered from 1.
ClearSuitesPointerOnly ==
    /\ Registering
    /\ defStack = <<>>
    /\ currentSuite' = Null
    /\ cleared' = [now |-> TRUE, dropped |-> Registered]
    /\ UNCHANGED <<suites, rootSuites, nextTest, defStack, exc>>
    /\ UNCHANGED <<runVars, libVars>>

ClearSuites ==
    /\ Registering
    /\ defStack = <<>>
    /\ rootSuites' = <<>>
    /\ currentSuite' = Null
    /\ suites' = <<>>
    /\ nextTest' = 1
    /\ cleared' = [now |-> TRUE, dropped |-> Registered]
    /\ UNCHANGED <<defStack, exc>>
    /\ UNCHANGED <<runVars, libVars>>

Register ==
    \/ Describe \/ DescribeSkip \/ DescribeOnly
    \/ DescribeReturn \/ DefinitionThrows \/ DescribeUnwind \/ Catch
    \/ Test \/ TestSkip \/ TestOnly
    \/ BeforeEach \/ AfterEach \/ BeforeAll \/ AfterAll
    \/ ClearSuites

----------------------------------------------------------------------------
(* Runner                                                                  *)

\* Date.now(): the clock advances by one with every user function awaited.
Now == Len(log)

\* What an awaited user function does.
Outcomes == {"ok", "throws"}

\* await hook() / await test.fn(): user function fn, called on behalf of test `for`
\* (Null for a before-all or after-all hook), settles and the run resumes.
Await(fn, for, outcome) ==
    /\ fn \in inFlight
    /\ inFlight' = inFlight \ {fn}
    /\ log' = Append(log, [fn |-> fn, test |-> for, outcome |-> outcome])

\* fullName = parentName ? `${parentName} > ${suite.name}` : suite.name
FullName(parentName, name) ==
    IF parentName # <<>> THEN parentName \o <<">", name>> ELSE <<name>>

\* The local variables of one runSuite invocation, and of the runTest it awaits.
NewFrame(suite, parentName) ==
    [suite |-> suite, fullName |-> FullName(parentName, suites[suite].name),
     startTime |-> Now, results |-> <<>>, hasOnly |-> FALSE,
     pc |-> "beforeAll", i |-> 1, j |-> 1, testStart |-> 0, error |-> NoError]

Top == runStack[Len(runStack)]
SetTop(f) == [runStack EXCEPT ![Len(runStack)] = f]
At(pc) == runState = "running" /\ runStack # <<>> /\ Top.pc = pc

\* The suite a runSuite invocation works on, whose hooks runTest takes.
TopSuiteInherits ==
    LET enclosing == IF Len(runStack) > 1
                       THEN suites[runStack[Len(runStack) - 1].suite]
                       ELSE suites[Top.suite]
    IN  IF Len(runStack) > 1
          THEN [suites[Top.suite] EXCEPT
                   !.beforeEach = enclosing.beforeEach \o @,
                   !.afterEach = @ \o enclosing.afterEach]
          ELSE suites[Top.suite]
TopSuite == suites[Top.suite]

Range(seq) == {seq[k] : k \in 1..Len(seq)}
Some(seq, P(_)) == \E k \in 1..Len(seq) : P(seq[k])
Count(seq, P(_)) == Cardinality({k \in 1..Len(seq) : P(seq[k])})

HasOnlyGrandchildren(suite) ==
    \/ Some(suite.tests, LAMBDA t : t.only)
    \/ Some(suite.suites, LAMBDA s : suites[s].only)
    \/ Some(suite.suites, LAMBDA s : Some(suites[s].tests, LAMBDA t : t.only))

\* suite.tests.some(t => t.only) || suite.suites.some(s => s.only)
HasOnly(suite) ==
    \/ Some(suite.tests, LAMBDA t : t.only)
    \/ Some(suite.suites, LAMBDA s : suites[s].only)

PropagateCaught(error) ==
    /\ runStack' = <<>>
    /\ rootIdx' = rootIdx + 1
    /\ thrown' = error
    /\ UNCHANGED <<runState, results, returned>>

\* An error leaves runSuite: nothing catches it in any enclosing runSuite nor in
\* runAllTests, whose promise rejects with it.
Propagate(error) ==
    /\ runStack' = <<>>
    /\ results' = <<>>
    /\ runState' = "thrown"
    /\ thrown' = error
    /\ UNCHANGED <<rootIdx, returned>>

NoRun == [executed |-> <<>>, reported |-> <<>>, any |-> FALSE]

\* The tests for which a user function was awaited, in the order in which the first
\* one of each was.
Executed ==
    LET firsts == {k \in 1..Len(log) :
                      /\ log[k].test # Null
                      /\ \A j \in 1..(k - 1) : log[j].test # log[k].test}
    IN  [i \in 1..Cardinality(firsts) |->
            log[CHOOSE k \in firsts : Cardinality({j \in firsts : j <= k}) = i].test]

\* For each SuiteResult of the sequence, its name and the names of its test list.
NamesOf(suiteResults) ==
    [k \in 1..Len(suiteResults) |->
        [name |-> suiteResults[k].name,
         tests |-> [p \in 1..Len(suiteResults[k].tests) |-> suiteResults[k].tests[p].name]]]

\* export async function runAllTests(): const results: TestSuiteResult[] = []
RunAllTests ==
    /\ runState # "running"
    /\ exc = "none"
    /\ defStack = <<>>
    /\ runState' = "running"
    /\ results' = <<>>
    /\ rootIdx' = 1
    /\ runStack' = <<>>
    /\ returned' = <<>>
    /\ thrown' = NoError
    /\ log' = <<>>
    /\ previous' = NoRun
    /\ UNCHANGED inFlight
    /\ UNCHANGED <<regVars, libVars>>

\* runAllTests called again by the caller that holds the results of the run that has
\* just returned: the same start, with what that run executed and reported kept to
\* compare the new run with.
RunAgain ==
    /\ runState = "returned"
    /\ exc = "none"
    /\ defStack = <<>>
    /\ runState' = "running"
    /\ results' = <<>>
    /\ rootIdx' = 1
    /\ runStack' = <<>>
    /\ returned' = <<>>
    /\ thrown' = NoError
    /\ log' = <<>>
    /\ previous' = [executed |-> Executed, reported |-> NamesOf(returned),
                    any |-> TRUE]
    /\ UNCHANGED inFlight
    /\ UNCHANGED <<regVars, libVars>>

\* if (suite.skip) continue      (in the loop of runAllTests)
RootSkippedNever(suite) == FALSE
RootSkipped(suite) == suite.skip

\* for (const suite of rootSuites) { if (suite.skip) continue; ...
RunAllSkip ==
    /\ runState = "running" /\ runStack = <<>>
    /\ rootIdx <= Len(rootSuites)
    /\ RootSkipped(suites[rootSuites[rootIdx]])
    /\ rootIdx' = rootIdx + 1
    /\ UNCHANGED <<runState, results, runStack, returned, thrown, log, inFlight>>
    /\ UNCHANGED <<regVars, libVars, previous>>

\* ... const result = await runSuite(suite)
RunAllCall ==
    /\ runState = "running" /\ runStack = <<>>
    /\ rootIdx <= Len(rootSuites)
    /\ ~RootSkipped(suites[rootSuites[rootIdx]])
    /\ runStack' = <<NewFrame(rootSuites[rootIdx], <<>>)>>
    /\ UNCHANGED <<runState, results, rootIdx, returned, thrown, log, inFlight>>
    /\ UNCHANGED <<regVars, libVars, previous>>

RunAllReturnDrains ==
    /\ runState = "running" /\ runStack = <<>>
    /\ rootIdx > Len(rootSuites)
    /\ runState' = "returned"
    /\ returned' = results
    /\ rootSuites' = <<>>
    /\ UNCHANGED <<results, rootIdx, runStack, thrown, log, inFlight>>
    /\ UNCHANGED <<suites, currentSuite, nextTest, defStack, exc, cleared>>
    /\ UNCHANGED <<libVars, previous>>

\* return results
RunAllReturn ==
    /\ runState = "running" /\ runStack = <<>>
    /\ rootIdx > Len(rootSuites)
    /\ runState' = "returned"
    /\ returned' = results
    /\ UNCHANGED <<results, rootIdx, runStack, thrown, log, inFlight>>
    /\ UNCHANGED <<regVars, libVars, previous>>

\* The caller has consumed the outcome of the run (printResults, or the handler of
\* the rejection).
RunSettled ==
    /\ runState \in {"returned", "thrown"}
    /\ runState' = "idle"
    /\ results' = <<>>
    /\ rootIdx' = 1
    /\ returned' = <<>>
    /\ thrown' = NoError
    /\ log' = <<>>
    /\ previous' = NoRun
    /\ UNCHANGED inFlight
    /\ UNCHANGED runStack
    /\ UNCHANGED <<regVars, libVars>>

\* for (const hook of suite.beforeAll) await hook()
RunSuiteBeforeAll ==
    /\ At("beforeAll")
    /\ Top.j <= Len(TopSuite.beforeAll)
    /\ \E outcome \in Outcomes :
         LET hook == TopSuite.beforeAll[Top.j] IN
         /\ Await(hook, Null, outcome)
         /\ IF outcome = "ok"
              THEN /\ runStack' = SetTop([Top EXCEPT !.j = @ + 1])
                   /\ UNCHANGED <<runState, results, rootIdx, returned, thrown>>
              ELSE Propagate(hook)
    /\ UNCHANGED <<regVars, libVars, previous>>

\* const hasOnly = ...
RunSuiteHasOnly ==
    /\ At("beforeAll")
    /\ Top.j > Len(TopSuite.beforeAll)
    /\ runStack' = SetTop([Top EXCEPT !.hasOnly = HasOnly(TopSuite), !.pc = "tests",
                                      !.i = 1, !.j = 1])
    /\ UNCHANGED <<runState, results, rootIdx, returned, thrown, log, inFlight>>
    /\ UNCHANGED <<regVars, libVars, previous>>

CurrentTest == TopSuite.tests[Top.i]

\* The run is at a call of a user function: hook() in one of the five loops over
\* hooks, or test.fn().
AtCall ==
    /\ runState = "running" /\ runStack # <<>>
    /\ \/ Top.pc = "beforeAll" /\ Top.j <= Len(TopSuite.beforeAll)
       \/ Top.pc = "beforeEach"
       \/ Top.pc \in {"afterEach", "cleanup"} /\ Top.j <= Len(TopSuite.afterEach)
       \/ Top.pc = "afterAll" /\ Top.j <= Len(TopSuite.afterAll)

\* The user function called there.
Callee ==
    CASE Top.pc = "beforeAll" -> TopSuite.beforeAll[Top.j]
      [] Top.pc = "beforeEach" ->
            IF Top.j <= Len(TopSuite.beforeEach) THEN TopSuite.beforeEach[Top.j]
            ELSE CurrentTest.fn
      [] Top.pc \in {"afterEach", "cleanup"} -> TopSuite.afterEach[Top.j]
      [] Top.pc = "afterAll" -> TopSuite.afterAll[Top.j]

RunCallDetached ==
    /\ AtCall
    /\ Callee \notin inFlight
    /\ inFlight' = inFlight \cup {Callee}
    /\ runStack' = IF Top.pc = "beforeAll" THEN SetTop([Top EXCEPT !.j = @ + 1])
                   ELSE runStack
    /\ UNCHANGED <<runState, results, rootIdx, returned, thrown, log>>
    /\ UNCHANGED <<regVars, libVars, previous>>

\* hook() / test.fn(): the user function is called and returns its promise, on which
\* the run waits; nothing else of the run is executed until that promise settles.
RunCall ==
    /\ AtCall
    /\ Callee \notin inFlight
    /\ inFlight' = inFlight \cup {Callee}
    /\ UNCHANGED <<runState, results, rootIdx, runStack, returned, thrown, log>>
    /\ UNCHANGED <<regVars, libVars, previous>>

\* The body of for (const test of suite.tests): what is done with one test.
TestStepOnlyFirst(test, hasOnly) ==
    IF hasOnly /\ ~test.only THEN "omit"
    ELSE IF test.skip THEN "record"
    ELSE "run"

TestStepNoOnly(test, hasOnly) ==
    IF test.skip THEN "record" ELSE "run"

TestStep(test, hasOnly) ==
    IF test.skip THEN "record"
    ELSE IF hasOnly /\ ~test.only THEN "omit"
    ELSE "run"

\* if (test.skip) { results.push({name, passed: true, duration: 0, assertions: []}); continue }
RunSuiteTestSkipped ==
    /\ At("tests")
    /\ Top.i <= Len(TopSuite.tests)
    /\ TestStep(CurrentTest, Top.hasOnly) = "record"
    /\ runStack' = SetTop([Top EXCEPT
           !.results = Append(@, [name |-> CurrentTest.name, passed |-> TRUE,
                                  error |-> NoError, duration |-> 0]),
           !.i = @ + 1])
    /\ UNCHANGED <<runState, results, rootIdx, returned, thrown, log, inFlight>>
    /\ UNCHANGED <<regVars, libVars, previous>>

\* if (hasOnly && !test.only) continue
RunSuiteTestOmitted ==
    /\ At("tests")
    /\ Top.i <= Len(TopSuite.tests)
    /\ TestStep(CurrentTest, Top.hasOnly) = "omit"
    /\ runStack' = SetTop([Top EXCEPT !.i = @ + 1])
    /\ UNCHANGED <<runState, results, rootIdx, returned, thrown, log, inFlight>>
    /\ UNCHANGED <<regVars, libVars, previous>>

RunTestCallHooksOnce ==
    /\ At("tests")
    /\ Top.i <= Len(TopSuite.tests)
    /\ TestStep(CurrentTest, Top.hasOnly) = "run"
    /\ runStack' = SetTop([Top EXCEPT !.pc = "beforeEach", !.testStart = Now,
                                      !.j = IF Top.i = 1 THEN 1
                                            ELSE Len(TopSuite.beforeEach) + 1,
                                      !.error = NoError])
    /\ UNCHANGED <<runState, results, rootIdx, returned, thrown, log, inFlight>>
    /\ UNCHANGED <<regVars, libVars, previous>>

\* const result = await runTest(test, suite): runTest starts, startTime = Date.now()
RunTestCall ==
    /\ At("tests")
    /\ Top.i <= Len(TopSuite.tests)
    /\ TestStep(CurrentTest, Top.hasOnly) = "run"
    /\ runStack' = SetTop([Top EXCEPT !.pc = "beforeEach", !.j = 1, !.testStart = Now,
                                      !.error = NoError])
    /\ UNCHANGED <<runState, results, rootIdx, returned, thrown, log, inFlight>>
    /\ UNCHANGED <<regVars, libVars, previous>>

RunTestBeforeEachGoesOn ==
    /\ At("beforeEach")
    /\ Top.j <= Len(TopSuite.beforeEach)
    /\ \E outcome \in Outcomes :
         LET hook == TopSuite.beforeEach[Top.j] IN
         /\ Await(hook, CurrentTest.name, outcome)
         /\ runStack' = SetTop(IF outcome = "ok"
                                 THEN [Top EXCEPT !.j = @ + 1]
                                 ELSE [Top EXCEPT !.j = @ + 1, !.error = hook])
    /\ UNCHANGED <<runState, results, rootIdx, returned, thrown>>
    /\ UNCHANGED <<regVars, libVars, previous>>

\* try { for (const hook of suite.beforeEach) await hook() ... } catch (error) {
RunTestBeforeEach ==
    /\ At("beforeEach")
    /\ Top.j <= Len(TopSuite.beforeEach)
    /\ \E outcome \in Outcomes :
         LET hook == TopSuite.beforeEach[Top.j] IN
         /\ Await(hook, CurrentTest.name, outcome)
         /\ runStack' = SetTop(IF outcome = "ok"
                                 THEN [Top EXCEPT !.j = @ + 1]
                                 ELSE [Top EXCEPT !.pc = "cleanup", !.j = 1, !.error = hook])
    /\ UNCHANGED <<runState, results, rootIdx, returned, thrown>>
    /\ UNCHANGED <<regVars, libVars, previous>>

RunTestBodyUncaught ==
    /\ At("beforeEach")
    /\ Top.j > Len(TopSuite.beforeEach)
    /\ \E outcome \in Outcomes :
         /\ Await(CurrentTest.fn, CurrentTest.name, outcome)
         /\ IF outcome = "ok"
              THEN /\ runStack' = SetTop([Top EXCEPT !.pc = "afterEach", !.j = 1])
                   /\ UNCHANGED <<runState, results, rootIdx, returned, thrown>>
              ELSE Propagate(CurrentTest.fn)
    /\ UNCHANGED <<regVars, libVars, previous>>

\* await test.fn()
RunTestBody ==
    /\ At("beforeEach")
    /\ Top.j > Len(TopSuite.beforeEach)
    /\ \E outcome \in Outcomes :
         /\ Await(CurrentTest.fn, CurrentTest.name, outcome)
         /\ runStack' = SetTop(IF outcome = "ok"
                                 THEN [Top EXCEPT !.pc = "afterEach", !.j = 1]
                                 ELSE [Top EXCEPT !.pc = "cleanup", !.j = 1,
                                                  !.error = CurrentTest.fn])
    /\ UNCHANGED <<runState, results, rootIdx, returned, thrown>>
    /\ UNCHANGED <<regVars, libVars, previous>>

RunTestAfterEachResumes ==
    /\ At("afterEach")
    /\ Top.j <= Len(TopSuite.afterEach)
    /\ \E outcome \in Outcomes :
         LET hook == TopSuite.afterEach[Top.j] IN
         /\ Await(hook, CurrentTest.name, outcome)
         /\ runStack' = SetTop(IF outcome = "ok"
                                 THEN [Top EXCEPT !.j = @ + 1]
                                 ELSE [Top EXCEPT !.pc = "cleanup", !.j = @ + 1,
                                                  !.error = hook])
    /\ UNCHANGED <<runState, results, rootIdx, returned, thrown>>
    /\ UNCHANGED <<regVars, libVars, previous>>

\* for (const hook of suite.afterEach) await hook()   (inside the try block)
RunTestAfterEach ==
    /\ At("afterEach")
    /\ Top.j <= Len(TopSuite.afterEach)
    /\ \E outcome \in Outcomes :
         LET hook == TopSuite.afterEach[Top.j] IN
         /\ Await(hook, CurrentTest.name, outcome)
         /\ runStack' = SetTop(IF outcome = "ok"
                                 THEN [Top EXCEPT !.j = @ + 1]
                                 ELSE [Top EXCEPT !.pc = "cleanup", !.j = 1, !.error = hook])
    /\ UNCHANGED <<runState, results, rootIdx, returned, thrown>>
    /\ UNCHANGED <<regVars, libVars, previous>>

\* return {name, passed: true, duration: Date.now() - startTime, assertions};
\* results.push(result)
RunTestPassed ==
    /\ At("afterEach")
    /\ Top.j > Len(TopSuite.afterEach)
    /\ runStack' = SetTop([Top EXCEPT
           !.results = Append(@, [name |-> CurrentTest.name, passed |-> TRUE,
                                  error |-> NoError, duration |-> Now - Top.testStart]),
           !.pc = "tests", !.i = @ + 1, !.j = 1, !.testStart = 0])
    /\ UNCHANGED <<runState, results, rootIdx, returned, thrown, log, inFlight>>
    /\ UNCHANGED <<regVars, libVars, previous>>

\* catch (hookError) { /* Ignore hook errors */ }: the error the TestResult carries
SwallowMasks(error, hookError) == hookError
Swallow(error, hookError) == error

RunTestCleanupGoesOn ==
    /\ At("cleanup")
    /\ Top.j <= Len(TopSuite.afterEach)
    /\ \E outcome \in Outcomes :
         LET hook == TopSuite.afterEach[Top.j] IN
         /\ Await(hook, CurrentTest.name, outcome)
         /\ runStack' = SetTop([Top EXCEPT !.j = @ + 1])
    /\ UNCHANGED <<runState, results, rootIdx, returned, thrown>>
    /\ UNCHANGED <<regVars, libVars, previous>>

\* catch (error) { try { for (const hook of suite.afterEach) await hook() }
\*                 catch (hookError) { /* Ignore hook errors */ } ...
RunTestCleanup ==
    /\ At("cleanup")
    /\ Top.j <= Len(TopSuite.afterEach)
    /\ \E outcome \in Outcomes :
         LET hook == TopSuite.afterEach[Top.j] IN
         /\ Await(hook, CurrentTest.name, outcome)
         /\ runStack' = SetTop(IF outcome = "ok"
                                 THEN [Top EXCEPT !.j = @ + 1]
                                 ELSE [Top EXCEPT !.pc = "failed",
                                                  !.error = Swallow(@, hook)])
    /\ UNCHANGED <<runState, results, rootIdx, returned, thrown>>
    /\ UNCHANGED <<regVars, libVars, previous>>

RunTestFailedDropsError ==
    /\ \/ At("failed")
       \/ At("cleanup") /\ Top.j > Len(TopSuite.afterEach)
    /\ runStack' = SetTop([Top EXCEPT
           !.results = Append(@, [name |-> CurrentTest.name, passed |-> FALSE,
                                  error |-> NoError, duration |-> Now - Top.testStart]),
           !.pc = "tests", !.i = @ + 1, !.j = 1, !.testStart = 0, !.error = NoError])
    /\ UNCHANGED <<runState, results, rootIdx, returned, thrown, log, inFlight>>
    /\ UNCHANGED <<regVars, libVars, previous>>

\* ... return {name, passed: false, error, duration: Date.now() - startTime, assertions} };
\* results.push(result)
RunTestFailed ==
    /\ \/ At("failed")
       \/ At("cleanup") /\ Top.j > Len(TopSuite.afterEach)
    /\ runStack' = SetTop([Top EXCEPT
           !.results = Append(@, [name |-> CurrentTest.name, passed |-> FALSE,
                                  error |-> Top.error, duration |-> Now - Top.testStart]),
           !.pc = "tests", !.i = @ + 1, !.j = 1, !.testStart = 0, !.error = NoError])
    /\ UNCHANGED <<runState, results, rootIdx, returned, thrown, log, inFlight>>
    /\ UNCHANGED <<regVars, libVars, previous>>

\* The loop over suite.tests is over; for (const nestedSuite of suite.suites) starts.
RunSuiteTestsDone ==
    /\ At("tests")
    /\ Top.i > Len(TopSuite.tests)
    /\ runStack' = SetTop([Top EXCEPT !.pc = "nested", !.i = 1])
    /\ UNCHANGED <<runState, results, rootIdx, returned, thrown, log, inFlight>>
    /\ UNCHANGED <<regVars, libVars, previous>>

NestedSuite == TopSuite.suites[Top.i]

NestedStepNoOnly(nested, hasOnly) ==
    IF nested.skip THEN "omit" ELSE "run"

\* The body of for (const nestedSuite of suite.suites): is the nested suite run?
NestedStep(nested, hasOnly) ==
    IF nested.skip THEN "omit"
    ELSE IF hasOnly /\ ~nested.only THEN "omit"
    ELSE "run"

\* if (nestedSuite.skip) continue; if (hasOnly && !nestedSuite.only) continue
RunSuiteNestedSkipped ==
    /\ At("nested")
    /\ Top.i <= Len(TopSuite.suites)
    /\ NestedStep(suites[NestedSuite], Top.hasOnly) = "omit"
    /\ runStack' = SetTop([Top EXCEPT !.i = @ + 1])
    /\ UNCHANGED <<runState, results, rootIdx, returned, thrown, log, inFlight>>
    /\ UNCHANGED <<regVars, libVars, previous>>

\* const nestedResult = await runSuite(nestedSuite, fullName)
RunSuiteNestedCall ==
    /\ At("nested")
    /\ Top.i <= Len(TopSuite.suites)
    /\ NestedStep(suites[NestedSuite], Top.hasOnly) = "run"
    /\ runStack' = Append(runStack, NewFrame(NestedSuite, Top.fullName))
    /\ UNCHANGED <<runState, results, rootIdx, returned, thrown, log, inFlight>>
    /\ UNCHANGED <<regVars, libVars, previous>>

RunSuiteNestedDoneIdle ==
    /\ At("nested")
    /\ Top.i > Len(TopSuite.suites)
    /\ runStack' = SetTop([Top EXCEPT !.pc = "afterAll", !.i = 1,
                              !.j = IF Top.results = <<>>
                                      THEN Len(TopSuite.afterAll) + 1 ELSE 1])
    /\ UNCHANGED <<runState, results, rootIdx, returned, thrown, log, inFlight>>
    /\ UNCHANGED <<regVars, libVars, previous>>

\* The loop over suite.suites is over; for (const hook of suite.afterAll) starts.
RunSuiteNestedDone ==
    /\ At("nested")
    /\ Top.i > Len(TopSuite.suites)
    /\ runStack' = SetTop([Top EXCEPT !.pc = "afterAll", !.i = 1, !.j = 1])
    /\ UNCHANGED <<runState, results, rootIdx, returned, thrown, log, inFlight>>
    /\ UNCHANGED <<regVars, libVars, previous>>

\* for (const hook of suite.afterAll) await hook()
RunSuiteAfterAll ==
    /\ At("afterAll")
    /\ Top.j <= Len(TopSuite.afterAll)
    /\ \E outcome \in Outcomes :
         LET hook == TopSuite.afterAll[Top.j] IN
         /\ Await(hook, Null, outcome)
         /\ IF outcome = "ok"
              THEN /\ runStack' = SetTop([Top EXCEPT !.j = @ + 1])
                   /\ UNCHANGED <<runState, results, rootIdx, returned, thrown>>
              ELSE Propagate(hook)
    /\ UNCHANGED <<regVars, libVars, previous>>

SuiteResultSkippedFlat(f) ==
    [name |-> f.fullName,
     tests |-> f.results,
     passed |-> Count(f.results, LAMBDA r : r.passed),
     failed |-> Count(f.results, LAMBDA r : ~r.passed),
     skipped |-> Count(f.results, LAMBDA r : r.passed /\ r.duration = 0 /\ r.error = NoError
                                             /\ \E s \in 1..Len(suites) :
                                                   \E k \in 1..Len(suites[s].tests) :
                                                      /\ suites[s].tests[k].name = r.name
                                                      /\ suites[s].tests[k].skip),
     duration |-> Now - f.startTime]

SuiteResultSkipsApart(f) ==
    [name |-> f.fullName,
     tests |-> f.results,
     passed |-> Count(f.results, LAMBDA r : r.passed)
                - Count(suites[f.suite].tests, LAMBDA t : t.skip),
     failed |-> Count(f.results, LAMBDA r : ~r.passed),
     skipped |-> Count(suites[f.suite].tests, LAMBDA t : t.skip),
     duration |-> Now - f.startTime]

\* const passed = results.filter(r => r.passed).length;
\* const failed = results.filter(r => !r.passed).length;
\* return {name: fullName, tests: results, passed, failed, skipped, duration}
SuiteResult(f) ==
    [name |-> f.fullName,
     tests |-> f.results,
     passed |-> Count(f.results, LAMBDA r : r.passed),
     failed |-> Count(f.results, LAMBDA r : ~r.passed),
     skipped |-> Count(suites[f.suite].tests, LAMBDA t : t.skip),
     duration |-> Now - f.startTime]

\* results.push(...nestedResult.tests)
SplicePrepended(results_, nested) == nested \o results_
Splice(results_, nested) == results_ \o nested

\* runSuite returns to runAllTests (results.push(result)) or to the enclosing runSuite
\* (results.push(...nestedResult.tests)).
RunSuiteReturn ==
    /\ At("afterAll")
    /\ Top.j > Len(TopSuite.afterAll)
    /\ IF Len(runStack) = 1
         THEN /\ runStack' = <<>>
              /\ results' = Append(results, SuiteResult(Top))
              /\ rootIdx' = rootIdx + 1
         ELSE /\ runStack' = [SubSeq(runStack, 1, Len(runStack) - 1) EXCEPT
                                 ![Len(runStack) - 1].results = Splice(@, SuiteResult(Top).tests),
                                 ![Len(runStack) - 1].i = @ + 1]
              /\ UNCHANGED <<results, rootIdx>>
    /\ UNCHANGED <<runState, returned, thrown, log, inFlight>>
    /\ UNCHANGED <<regVars, libVars, previous>>

Run ==
    \/ RunAllTests \/ RunAllSkip \/ RunAllCall \/ RunAllReturn \/ RunSettled
    \/ RunCall \/ RunSuiteBeforeAll \/ RunSuiteHasOnly
    \/ RunSuiteTestSkipped \/ RunSuiteTestOmitted \/ RunTestCall
    \/ RunTestBeforeEach \/ RunTestBody \/ RunTestAfterEach \/ RunTestPassed
    \/ RunTestCleanup \/ RunTestFailed
    \/ RunSuiteTestsDone \/ RunSuiteNestedSkipped \/ RunSuiteNestedCall
    \/ RunSuiteNestedDone \/ RunSuiteAfterAll \/ RunSuiteReturn

----------------------------------------------------------------------------
(* JavaScript values                                                       *)
(*                                                                         *)
(* A value is its type, its text when it is a primitive, and when it is an *)
(* object or an array the reference that tells it from every other object  *)
(* (0 for a primitive) and its own enumerable properties in their order.   *)
(* The numbers are NaN, +0, -0 and the small naturals.  An Error is known  *)
(* by its message (it has no enumerable property) and a promise by how it  *)
(* settles; neither has a reference, they are never compared by identity.  *)

Value(type, text) == [type |-> type, text |-> text, ref |-> 0, props |-> <<>>]
Undefined == Value("undefined", "")
NullValue == Value("null", "")
Bool(text) == Value("boolean", text)
Num(text) == Value("number", text)
Str(text) == Value("string", text)
\* new Error(message)
Error(message) == Value("Error", message)

Digits == <<"0", "1", "2", "3", "4", "5", "6", "7", "8", "9">>
\* The number that is a length
NumOf(n) == IF n = 0 THEN Num("+0") ELSE Num(Digits[n + 1])

\* { key: value, ... } and [item, ...]
Object(ref, props) == [type |-> "object", text |-> "", ref |-> ref, props |-> props]
Array(ref, items) ==
    [type |-> "array", text |-> "", ref |-> ref,
     props |-> [i \in 1..Len(items) |-> <<Digits[i], items[i]>>]]

\* A promise: "settled" when it is returned or "deferred", and what it is fulfilled
\* with or rejected with.
Promise(state, fulfils, value) ==
    [type |-> "promise", text |-> state, ref |-> 0,
     props |-> <<<<IF fulfils THEN "fulfilled" ELSE "rejected", value>>>>]
Deferred(value) == value.type = "promise" /\ value.text = "deferred"
Fulfils(promise) == promise.props[1][1] = "fulfilled"
Settlement(promise) == promise.props[1][2]

\* typeof value
TypeOf(value) ==
    IF value.type \in {"null", "array", "Error", "promise", "RegExp"}
      THEN "object" ELSE value.type

\* !!value
Truthy(value) ==
    ~ \/ value.type \in {"undefined", "null"}
      \/ value.type = "boolean" /\ value.text = "false"
      \/ value.type = "number" /\ value.text \in {"NaN", "+0", "-0"}
      \/ value.type = "string" /\ value.text = ""

ObjectIsButNaN(a, b) ==
    IF a.ref # 0 \/ b.ref # 0 THEN a.ref = b.ref
    ELSE a.type = b.type /\ a.text = b.text /\ a.text # "NaN"

\* Object.is(a, b): NaN is NaN, +0 is not -0
ObjectIs(a, b) ==
    IF a.ref # 0 \/ b.ref # 0 THEN a.ref = b.ref
    ELSE a.type = b.type /\ a.text = b.text

Unsigned(text) == IF text \in {"+0", "-0"} THEN "0" ELSE text

\* a === b: NaN is not NaN, +0 is -0
StrictEquals(a, b) ==
    IF a.type = "number" /\ b.type = "number"
      THEN a.text # "NaN" /\ Unsigned(a.text) = Unsigned(b.text)
      ELSE ObjectIs(a, b)

\* The comparison of Array.prototype.includes: NaN is NaN, +0 is -0
SameValueZero(a, b) ==
    IF a.type = "number" /\ b.type = "number"
      THEN Unsigned(a.text) = Unsigned(b.text)
      ELSE ObjectIs(a, b)

\* The own enumerable properties: how a promise settles and what a function does are
\* none of them.
Props(value) == IF value.type \in {"promise", "function"} THEN <<>> ELSE value.props

\* Object.keys(value)
Keys(value) == [i \in 1..Len(Props(value)) |-> Props(value)[i][1]]
HasOwn(value, key) == \E i \in 1..Len(Props(value)) : Props(value)[i][1] = key

\* value[key] of a value that is not null or undefined
Get(value, key) ==
    IF HasOwn(value, key)
      THEN Props(value)[CHOOSE i \in 1..Len(Props(value)) : Props(value)[i][1] = key][2]
    ELSE IF key = "length" /\ value.type = "array" THEN NumOf(Len(value.props))
    ELSE IF key = "length" /\ value.type = "string" THEN NumOf(Len(value.text))
    ELSE Undefined

\* key in value, of an object or an array
In(key, value) == HasOwn(value, key) \/ (key = "length" /\ value.type = "array")

\* The items of an array
Items(array) == [i \in 1..Len(array.props) |-> array.props[i][2]]

\* String(value), as String.prototype.includes converts what it searches for
RECURSIVE StringOf(_)
RECURSIVE Join(_, _)
StringOf(value) ==
    CASE value.type \in {"undefined", "null"} ->
           IF value.type = "null" THEN "null" ELSE "undefined"
      [] value.type = "number" -> Unsigned(value.text)
      [] value.type \in {"boolean", "string"} -> value.text
      [] value.type = "array" -> Join(Items(value), 1)
      [] value.type = "Error" -> "Error: " \o value.text
      [] OTHER -> "[object Object]"
\* items.join(','), from the k-th on
Join(items, k) ==
    IF k > Len(items) THEN ""
    ELSE (IF items[k].type \in {"undefined", "null"} THEN "" ELSE StringOf(items[k]))
         \o (IF k < Len(items) THEN "," ELSE "")
         \o Join(items, k + 1)

\* string.includes(part)
Includes(string, part) ==
    \E i \in 1..(Len(string) + 1) :
        \E j \in (i - 1)..Len(string) : SubSeq(string, i, j) = part

----------------------------------------------------------------------------
(* Call Recorder: class MockFunction, spyOn and restoreSpy of mock.ts      *)
(*                                                                         *)
(* A promise is settled already when a behaviour returns it (an async      *)
(* function that does not wait), or it settles later.  The values a        *)
(* recorder is configured with (returnValue, mockReturnValue,              *)
(* mockReturnValueOnce, mockResolvedValue) are not promises.  The          *)
(* timestamp of a MockCall is left out.  One recorder is observed, created *)
(* by mockTool or by spyOn.                                                *)

\* A test invokes the recorder, or the method a spy is put on, at most this many times
MaxCalls == 3
\* and applies at most this many mutators to it, restoreSpy included.
MaxMutators == 2
\* At most this many mockReturnValueOnce overrides are chained in front of a behaviour.
MaxChain == 2

ReturnValues == {Str("X"), Str("Y")}
Arguments == {<<>>, <<Str("X")>>}
First(args) == IF args = <<>> THEN Undefined ELSE args[1]

\* typeof error === 'string' ? new Error(error) : error
ToError(error) == IF error.type = "string" THEN Error(error.text) ELSE error

\* A function: what it is, the value it closes over, and for the function
\* mockReturnValueOnce builds its variables `called` and `oldImpl`.
Function(kind, value) == [kind |-> kind, value |-> value, called |-> FALSE, oldImpl |-> <<>>]
\* implementation?: Function, when it is undefined
NoImplementation == Function("undefined", Undefined)

Returned(value) == [type |-> "return", value |-> value]
Thrown(error) == [type |-> "throw", value |-> error]
NoCompletion == [type |-> "none", value |-> Undefined]
Suspended == [type |-> "pending", value |-> Undefined]

\* The object whose method is spied on, and what its original method does: it
\* returns 'original'; `delegated` keeps the `this` and the arguments it is called with.
TheObject == Value("object", "obj")
OriginalCall(this, args) == [this |-> this, args |-> args]

\* A function is called: the function afterwards (its closure variables), how the
\* call completes, and the calls the original method of the object has received.
RECURSIVE Invoke(_, _)
Invoke(impl, args) ==
    CASE impl.kind = "returns" ->        \* () => value
           [impl |-> impl, completion |-> Returned(impl.value), original |-> <<>>]
      [] impl.kind = "throws" ->         \* () => { throw error }
           [impl |-> impl, completion |-> Thrown(impl.value), original |-> <<>>]
      [] impl.kind = "resolves" ->       \* async () => value
           [impl |-> impl, completion |-> Returned(Promise("settled", TRUE, impl.value)),
            original |-> <<>>]
      [] impl.kind = "rejects" ->        \* async () => { throw ... }
           [impl |-> impl,
            completion |-> Returned(Promise("settled", FALSE, ToError(impl.value))),
            original |-> <<>>]
      [] impl.kind = "strict" ->         \* a user function: throws without arguments
           [impl |-> impl,
            completion |-> IF args = <<>> THEN Thrown(Error("missing"))
                           ELSE Returned(args[1]),
            original |-> <<>>]
      [] impl.kind = "later" ->          \* an async user function that waits
           [impl |-> impl,
            completion |-> IF args = <<>>
                             THEN Returned(Promise("deferred", FALSE, Error("missing")))
                             ELSE Returned(Promise("deferred", TRUE, args[1])),
            original |-> <<>>]
      [] impl.kind = "bound" ->          \* original.bind(obj)
           [impl |-> impl, completion |-> Returned(Str("original")),
            original |-> <<OriginalCall(impl.value, args)>>]
      [] impl.kind = "once" ->
           \* if (!called) { called = true; return value }
           \* return oldImpl ? oldImpl(...args) : undefined
           IF ~impl.called
             THEN [impl |-> [impl EXCEPT !.called = TRUE],
                   completion |-> Returned(impl.value), original |-> <<>>]
             ELSE IF impl.oldImpl[1] = NoImplementation
               THEN [impl |-> impl, completion |-> Returned(Undefined), original |-> <<>>]
               ELSE LET r == Invoke(impl.oldImpl[1], args) IN
                    [impl |-> [impl EXCEPT !.oldImpl = <<r.impl>>],
                     completion |-> r.completion, original |-> r.original]

\* this.implementation ? this.implementation(...args) : undefined
InvokeIfAny(impl, args) ==
    IF impl = NoImplementation
      THEN [impl |-> impl, completion |-> Returned(Undefined), original |-> <<>>]
      ELSE Invoke(impl, args)

\* await value
Awaited(value) ==
    IF value.type # "promise" THEN Returned(value)
    ELSE IF Fulfils(value) THEN Returned(Settlement(value))
    ELSE Thrown(Settlement(value))

RECURSIVE Chain(_)
Chain(impl) == IF impl.kind = "once" THEN 1 + Chain(impl.oldImpl[1]) ELSE 0

NoOptions ==
    [implementation |-> NoImplementation, returnValue |-> Undefined, throwError |-> Undefined]

Options ==
    [implementation : {NoImplementation, Function("strict", Undefined)},
     returnValue : {Undefined, Str("X")},
     throwError : {Undefined, Str("boom"), Error("boom")}]

\* constructor(name: string, options?: MockToolOptions)
MockFunction(name, options) ==
    [name |-> name,
     implementation |->
        IF options.implementation # NoImplementation
          THEN options.implementation
        ELSE IF options.returnValue # Undefined
          THEN Function("returns", options.returnValue)
        ELSE IF Truthy(options.throwError)
          THEN Function("throws", ToError(options.throwError))
        ELSE NoImplementation,
     calls |-> <<>>,
     returnValues |-> <<>>,
     errors |-> <<>>,
     original |-> "undefined"]

\* No recorder has been created yet.
NoMock == MockFunction("", NoOptions)

Created == mock.name # ""

NotFixed == [on |-> FALSE, value |-> Undefined, once |-> FALSE]

\* A one-shot override that no invocation has consumed.
Unconsumed(impl) == impl.kind = "once" /\ ~impl.called

\* last: the operation, its arguments, how the behaviour completed and what the caller
\* got (for an invocation); what `shadow` and `fixed` promised of the invocation; and,
\* of an invocation that completes, how many invocations started before it are still
\* suspended, and whether the histories were emptied while it was suspended.
Operation(op) ==
    [op |-> op, args |-> <<>>, behaved |-> NoCompletion, outcome |-> NoCompletion,
     promised |-> NoCompletion, fixed |-> NotFixed, ahead |-> 0, cleared |-> FALSE]

\* The suspended invocations, marked as having seen the histories emptied.
InFlightAtClear(invocations) ==
    [k \in 1..Len(invocations) |-> [invocations[k] EXCEPT !.cleared = TRUE]]

NotPristine == [on |-> FALSE, options |-> NoOptions, invoked |-> <<>>]
NoShadow ==
    [active |-> FALSE, value |-> Undefined, behaviour |-> NoImplementation,
     consumed |-> FALSE, registered |-> <<>>, base |-> NoImplementation]

\* mockTool(name, options), mockResource(uri, options), mockPrompt(name, options)
MockTool ==
    /\ ~Created
    /\ \E options \in Options :
          /\ mock' = MockFunction("tool", options)
          /\ pristine' = [on |-> TRUE, options |-> options, invoked |-> <<>>]
    /\ last' = Operation("mockTool")
    /\ UNCHANGED <<pending, obj, delegated, script, shadow, fixed>>
    /\ UNCHANGED <<vars, expectVars, serverVars>>

\* const original = obj[method];
\* const spy = new MockFunction(method, {implementation: original.bind(obj)});
\* obj[method] = (...args) => spy.execute(...args);  spy.__original = original; ...
BindNothing(this) == Function("bound", Undefined)
Bind(this) == Function("bound", this)

SpyOn ==
    /\ ~Created
    /\ obj = "original"
    /\ mock' = [MockFunction("method",
                    [NoOptions EXCEPT !.implementation = Bind(TheObject)])
                EXCEPT !.original = obj]
    /\ obj' = "wrapper"
    /\ last' = Operation("spyOn")
    /\ UNCHANGED <<pending, delegated, script, pristine, shadow, fixed>>
    /\ UNCHANGED <<vars, expectVars, serverVars>>

\* call.result = result; this.calls.push(call); this.returnValues.push(result);
\* and in the catch block
\* call.error = error; this.calls.push(call); this.errors.push(error);
RecordDropsFailure(m, args, completion) ==
    IF completion.type = "return"
      THEN [m EXCEPT !.calls = Append(@, [args |-> args, result |-> completion.value,
                                          error |-> Undefined]),
                     !.returnValues = Append(@, completion.value)]
      ELSE m

RecordPrepends(m, args, completion) ==
    IF completion.type = "return"
      THEN [m EXCEPT !.calls = <<[args |-> args, result |-> completion.value,
                                  error |-> Undefined]>> \o @,
                     !.returnValues = Append(@, completion.value)]
      ELSE [m EXCEPT !.calls = <<[args |-> args, result |-> Undefined,
                                  error |-> completion.value]>> \o @,
                     !.errors = Append(@, completion.value)]

RecordForgetsError(m, args, completion) ==
    IF completion.type = "return"
      THEN [m EXCEPT !.calls = Append(@, [args |-> args, result |-> completion.value,
                                          error |-> Undefined]),
                     !.returnValues = Append(@, completion.value)]
      ELSE [m EXCEPT !.calls = Append(@, [args |-> args, result |-> Undefined,
                                          error |-> completion.value])]

Record(m, args, completion) ==
    IF completion.type = "return"
      THEN [m EXCEPT !.calls = Append(@, [args |-> args, result |-> completion.value,
                                          error |-> Undefined]),
                     !.returnValues = Append(@, completion.value)]
      ELSE [m EXCEPT !.calls = Append(@, [args |-> args, result |-> Undefined,
                                          error |-> completion.value]),
                     !.errors = Append(@, completion.value)]

\* What mockReturnValueOnce(v) promises of the invocations that follow it: v of the
\* first, and of the others what the behaviour it was put in front of does.
Promised(args) ==
    IF ~shadow.active THEN NoCompletion
    ELSE IF ~shadow.consumed THEN Returned(shadow.value)
    ELSE InvokeIfAny(shadow.behaviour, args).completion

Shadowed(args) ==
    IF ~shadow.active THEN shadow
    ELSE IF ~shadow.consumed THEN [shadow EXCEPT !.consumed = TRUE]
    ELSE [shadow EXCEPT !.behaviour = InvokeIfAny(shadow.behaviour, args).impl]

\* async execute(...args): up to the await.  Without an implementation, and when the
\* implementation throws, nothing is awaited: the call is recorded at once and the
\* promise execute returns is settled.  Otherwise execute is suspended at the await.
Invocation(op, args) ==
    /\ Created
    /\ script.calls < MaxCalls
    /\ script' = [script EXCEPT !.calls = @ + 1]
    /\ LET r == InvokeIfAny(mock.implementation, args)
           m == [mock EXCEPT !.implementation = r.impl]
           now == mock.implementation = NoImplementation \/ r.completion.type = "throw"
       IN
       /\ mock' = IF now THEN Record(m, args, r.completion) ELSE m
       /\ pending' = IF now THEN pending
                     ELSE Append(pending, [args |-> args, awaited |-> r.completion.value,
                                           promised |-> Promised(args),
                                           fixed |-> fixed, cleared |-> FALSE])
       /\ delegated' = delegated \o r.original
       /\ last' = [op |-> op, args |-> args, behaved |-> r.completion,
                   outcome |-> IF now THEN r.completion ELSE Suspended,
                   promised |-> Promised(args), fixed |-> fixed,
                   ahead |-> IF now THEN Len(pending) ELSE 0, cleared |-> FALSE]
    /\ pristine' = IF pristine.on /\ pending = <<>>
                     THEN [pristine EXCEPT !.invoked = Append(@, args)]
                     ELSE NotPristine
    /\ shadow' = Shadowed(args)
    /\ UNCHANGED fixed
    /\ UNCHANGED obj
    /\ UNCHANGED <<vars, expectVars, serverVars>>

\* mock.execute(...args)
Execute == \E args \in Arguments : Invocation("execute", args)

\* obj[method](...args): the wrapper spyOn installed, or the original method
CallMethod ==
    \E args \in Arguments :
        IF obj = "wrapper"
          THEN Invocation("call", args)
          ELSE /\ mock.original # "undefined"
               /\ script.calls < MaxCalls
               /\ script' = [script EXCEPT !.calls = @ + 1]
               /\ delegated' = Append(delegated, OriginalCall(TheObject, args))
               /\ last' = [op |-> "original", args |-> args,
                           behaved |-> Returned(Str("original")),
                           outcome |-> Returned(Str("original")),
                           promised |-> NoCompletion, fixed |-> NotFixed, ahead |-> 0,
                           cleared |-> FALSE]
               /\ UNCHANGED <<mock, pending, obj, pristine, shadow, fixed>>
               /\ UNCHANGED <<vars, expectVars, serverVars>>

\* Invocations whose await is over settle in the order of their calls; one that waits
\* for a promise that settles later resumes at any time.
CanSettle(i) ==
    \/ Deferred(pending[i].awaited)
    \/ \A j \in 1..(i - 1) : Deferred(pending[j].awaited)

\* execute resumes after the await: the call is recorded and the promise execute
\* returned is fulfilled with the result, or rejected with the error (throw error).
ExecuteSettle ==
    \E i \in 1..Len(pending) :
        /\ CanSettle(i)
        /\ LET completion == Awaited(pending[i].awaited) IN
           /\ mock' = Record(mock, pending[i].args, completion)
           /\ last' = [op |-> "settle", args |-> pending[i].args,
                       behaved |-> Returned(pending[i].awaited), outcome |-> completion,
                       promised |-> pending[i].promised, fixed |-> pending[i].fixed,
                       ahead |-> i - 1, cleared |-> pending[i].cleared]
        /\ pending' = SubSeq(pending, 1, i - 1) \o SubSeq(pending, i + 1, Len(pending))
        /\ UNCHANGED <<obj, delegated, script, pristine, shadow, fixed>>
        /\ UNCHANGED <<vars, expectVars, serverVars>>

\* A mutator replaces this.implementation.
Mutate(op, impl) ==
    /\ Created
    /\ script.mutators < MaxMutators
    /\ script' = [script EXCEPT !.mutators = @ + 1]
    /\ mock' = [mock EXCEPT !.implementation = impl]
    /\ last' = Operation(op)
    /\ pristine' = NotPristine
    /\ UNCHANGED <<pending, obj, delegated>>
    /\ UNCHANGED <<vars, expectVars, serverVars>>

MockReturnValueBehindOnce ==
    /\ \E value \in ReturnValues :
          /\ Mutate("mockReturnValue",
                    IF Unconsumed(mock.implementation)
                      THEN [mock.implementation EXCEPT
                               !.oldImpl = <<Function("returns", value)>>]
                      ELSE Function("returns", value))
          /\ fixed' = [on |-> TRUE, value |-> value,
                       once |-> Unconsumed(mock.implementation)]
    /\ shadow' = NoShadow

\* this.implementation = () => value
MockReturnValue ==
    /\ \E value \in ReturnValues :
          /\ Mutate("mockReturnValue", Function("returns", value))
          /\ fixed' = [on |-> TRUE, value |-> value,
                       once |-> Unconsumed(mock.implementation)]
    /\ shadow' = NoShadow

\* const oldImpl = this.implementation; let called = false;
\* this.implementation = (...args) => { ... }
OnceKeepsOverride(value, oldImpl) ==
    [kind |-> "once", value |-> value, called |-> FALSE, oldImpl |-> <<NoImplementation>>]
Once(value, oldImpl) ==
    [kind |-> "once", value |-> value, called |-> FALSE, oldImpl |-> <<oldImpl>>]

\* The values registered before any invocation, with this one, and the behaviour
\* that was configured before the first of them.
OnceSeries(value) ==
    IF script.calls > 0 THEN [registered |-> <<>>, base |-> NoImplementation]
    ELSE [registered |-> Append(shadow.registered, value),
          base |-> IF shadow.registered = <<>> THEN mock.implementation ELSE shadow.base]

MockReturnValueOnceQueued ==
    /\ Chain(mock.implementation) < MaxChain
    /\ \E value \in ReturnValues :
          /\ Mutate("mockReturnValueOnce",
                    IF Unconsumed(mock.implementation)
                      THEN [mock.implementation EXCEPT
                               !.oldImpl = <<Once(value, mock.implementation.oldImpl[1])>>]
                      ELSE Once(value, mock.implementation))
          /\ fixed' = NotFixed
          /\ shadow' = [active |-> TRUE, value |-> value, behaviour |-> mock.implementation,
                        consumed |-> FALSE, registered |-> OnceSeries(value).registered,
                        base |-> OnceSeries(value).base]

\* mockReturnValueOnce(value)
MockReturnValueOnce ==
    /\ Chain(mock.implementation) < MaxChain
    /\ \E value \in ReturnValues :
          /\ Mutate("mockReturnValueOnce", Once(value, mock.implementation))
          /\ fixed' = NotFixed
          /\ shadow' = [active |-> TRUE, value |-> value, behaviour |-> mock.implementation,
                        consumed |-> FALSE, registered |-> OnceSeries(value).registered,
                        base |-> OnceSeries(value).base]

\* this.implementation = async () => value
MockResolvedValue ==
    /\ Mutate("mockResolvedValue", Function("resolves", Str("X")))
    /\ shadow' = NoShadow
    /\ fixed' = NotFixed

\* this.implementation = async () => { throw typeof error === 'string' ? new Error(error) : error }
MockRejectedValue ==
    /\ \E error \in {Str("boom"), Error("boom")} :
          Mutate("mockRejectedValue", Function("rejects", error))
    /\ shadow' = NoShadow
    /\ fixed' = NotFixed

\* this.implementation = fn
MockImplementation ==
    /\ \E kind \in {"strict", "later"} :
          Mutate("mockImplementation", Function(kind, Undefined))
    /\ shadow' = NoShadow
    /\ fixed' = NotFixed

\* this.calls = []; this.returnValues = []; this.errors = []
ClearKeepsErrors(m) == [m EXCEPT !.calls = <<>>, !.returnValues = <<>>]
Clear(m) == [m EXCEPT !.calls = <<>>, !.returnValues = <<>>, !.errors = <<>>]

MockClearCancels ==
    /\ Created
    /\ script.mutators < MaxMutators
    /\ script' = [script EXCEPT !.mutators = @ + 1]
    /\ mock' = Clear(mock)
    /\ last' = Operation("mockClear")
    /\ pristine' = NotPristine
    /\ pending' = <<>>
    /\ UNCHANGED <<obj, delegated, shadow, fixed>>
    /\ UNCHANGED <<vars, expectVars, serverVars>>

\* mockClear(): the invocations suspended in execute stay suspended
MockClear ==
    /\ Created
    /\ script.mutators < MaxMutators
    /\ script' = [script EXCEPT !.mutators = @ + 1]
    /\ mock' = Clear(mock)
    /\ last' = Operation("mockClear")
    /\ pristine' = NotPristine
    /\ pending' = InFlightAtClear(pending)
    /\ UNCHANGED <<obj, delegated, shadow, fixed>>
    /\ UNCHANGED <<vars, expectVars, serverVars>>

\* this.mockClear(); this.implementation = undefined
MockReset ==
    /\ Created
    /\ script.mutators < MaxMutators
    /\ script' = [script EXCEPT !.mutators = @ + 1]
    /\ mock' = [Clear(mock) EXCEPT !.implementation = NoImplementation]
    /\ last' = Operation("mockReset")
    /\ pristine' = NotPristine
    /\ shadow' = NoShadow
    /\ fixed' = NotFixed
    /\ pending' = InFlightAtClear(pending)
    /\ UNCHANGED <<obj, delegated>>
    /\ UNCHANGED <<vars, expectVars, serverVars>>

\* if (obj && method && original) obj[method] = original
RestoreKeepsWrapper(spy) == obj
Restore(spy) == IF spy.original # "undefined" THEN spy.original ELSE obj

RestoreSpy ==
    /\ Created
    /\ script.mutators < MaxMutators
    /\ script' = [script EXCEPT !.mutators = @ + 1]
    /\ obj' = Restore(mock)
    /\ last' = Operation("restoreSpy")
    /\ pristine' = NotPristine
    /\ UNCHANGED <<mock, pending, delegated, shadow, fixed>>
    /\ UNCHANGED <<vars, expectVars, serverVars>>

InitMock ==
    /\ mock = NoMock
    /\ pending = <<>>
    /\ obj = "original"
    /\ delegated = <<>>
    /\ last = Operation("none")
    /\ script = [calls |-> 0, mutators |-> 0]
    /\ pristine = NotPristine
    /\ shadow = NoShadow
    /\ fixed = NotFixed

\* What a test does with a recorder that mockTool made,
Recorder ==
    \/ MockTool
    \/ Execute \/ ExecuteSettle
    \/ MockReturnValue \/ MockReturnValueOnce \/ MockResolvedValue
    \/ MockRejectedValue \/ MockImplementation
    \/ MockClear \/ MockReset

\* and with a spy.
Spy ==
    \/ SpyOn \/ RestoreSpy
    \/ CallMethod \/ ExecuteSettle
    \/ MockReturnValue \/ MockReset

----------------------------------------------------------------------------
(* Mock server: createMockServer of mock.ts                                *)
(*                                                                         *)
(* The recorders createMockServer makes live in a heap (the sequence       *)
(* `recorders`) and are referred to by index.  A Map and the properties of *)
(* a server category are sets of pairs <<name, reference>>; the callable   *)
(* stored under a name is known by the recorder its closure has captured.  *)

MaxServerCalls == 2

\* The three categories of a server, in the order of the loops of createMockServer,
\* and the names a config may declare under a category.
Categories == <<"tools", "resources", "prompts">>
ServerNames == <<"a", "b">>

\* The MockToolOptions a name is declared with: {} or {returnValue: 'X'}.
ServerOptions == {NoOptions, [NoOptions EXCEPT !.returnValue = Str("X")]}

\* config: for each category the names declared under it, each with its options.
Configs ==
    [Range(Categories) -> UNION {[D -> ServerOptions] : D \in SUBSET Range(ServerNames)}]

\* Object.entries(config.tools), then of config.resources, then of config.prompts:
\* the <<category, name>> of every declared name, in the order of the three loops.
Entries(config) ==
    LET all == [i \in 1..(Len(Categories) * Len(ServerNames)) |->
                   <<Categories[((i - 1) \div Len(ServerNames)) + 1],
                     ServerNames[((i - 1) % Len(ServerNames)) + 1]>>]
    IN  SelectSeq(all, LAMBDA e : e[2] \in DOMAIN config[e[1]])

\* mocks.tools.set(name, mock): the Map of one category
Stored(entries, category) ==
    {<<entries[i][2], i>> : i \in {j \in 1..Len(entries) : entries[j][1] = category}}

CallablesShareLast(entries, category) ==
    {<<entries[i][2], Len(entries)>> :
        i \in {j \in 1..Len(entries) : entries[j][1] = category}}

\* server.tools[name] = (...args) => mock.execute(...args): the callables of one
\* category, each with the recorder `mock` is bound to in its closure
Callables(entries, category) ==
    {<<entries[i][2], i>> : i \in {j \in 1..Len(entries) : entries[j][1] = category}}

NotServed == [op |-> "none", category |-> "", name |-> "", args |-> <<>>, invoked |-> <<>>]

\* createMockServer(config): return { server, mocks }
CreateMockServer ==
    /\ served.op = "none"
    /\ \E config \in Configs :
          LET entries == Entries(config) IN
          /\ recorders' = [i \in 1..Len(entries) |->
                              MockFunction(entries[i][2], config[entries[i][1]][entries[i][2]])]
          /\ mockServer' =
                [server |-> [c \in Range(Categories) |-> Callables(entries, c)],
                 mocks |-> [c \in Range(Categories) |-> Stored(entries, c)]]
          /\ serverConfig' = config
    /\ served' = [NotServed EXCEPT !.op = "createMockServer"]
    /\ UNCHANGED waiting
    /\ UNCHANGED <<vars, mockVars, expectVars>>

\* server.tools[name](...args): mock.execute(...args) up to the await, or to its end
\* when nothing is awaited
ServerCall ==
    /\ served.op # "none"
    /\ Len(served.invoked) < MaxServerCalls
    /\ \E c \in Range(Categories) :
          \E callable \in mockServer.server[c] :
             \E args \in Arguments :
                LET id == callable[2]
                    m == recorders[id]
                    r == InvokeIfAny(m.implementation, args)
                    now == m.implementation = NoImplementation
                              \/ r.completion.type = "throw"
                IN
                /\ recorders' = [recorders EXCEPT ![id] =
                                    IF now THEN Record(m, args, r.completion) ELSE m]
                /\ waiting' = IF now THEN waiting
                              ELSE Append(waiting, [id |-> id, args |-> args,
                                                    awaited |-> r.completion.value])
                /\ served' = [op |-> "call", category |-> c, name |-> callable[1],
                              args |-> args, invoked |-> Append(served.invoked, id)]
    /\ UNCHANGED <<mockServer, serverConfig>>
    /\ UNCHANGED <<vars, mockVars, expectVars>>

\* execute resumes after the await, the invocations in the order of their calls.
ServerSettle ==
    /\ waiting # <<>>
    /\ recorders' = [recorders EXCEPT ![waiting[1].id] =
                        Record(@, waiting[1].args, Awaited(waiting[1].awaited))]
    /\ waiting' = Tail(waiting)
    /\ served' = [served EXCEPT !.op = "settle", !.args = waiting[1].args]
    /\ UNCHANGED <<mockServer, serverConfig>>
    /\ UNCHANGED <<vars, mockVars, expectVars>>

InitServer ==
    /\ mockServer = [server |-> [c \in Range(Categories) |-> {}],
                     mocks |-> [c \in Range(Categories) |-> {}]]
    /\ recorders = <<>>
    /\ waiting = <<>>
    /\ serverConfig = [c \in Range(Categories) |-> <<>>]
    /\ served = NotServed

\* What a test does with a mock server.
Server == CreateMockServer \/ ServerCall \/ ServerSettle

----------------------------------------------------------------------------
(* Assertion engine: class ExpectImpl of expect.ts                         *)
(*                                                                         *)
(* A matcher call returns ("pass"), or it throws the AssertionError of     *)
(* `assert` ("fail"), or it throws before it asserts because the subject   *)
(* is not of the kind it requires ("usage").  The message of the error is  *)
(* left out.  After an AssertionError the test is over; the next           *)
(* expectation is that of another test.                                    *)

\* `.not` is applied at most this many times in one expectation.
MaxNots == 2

\* constructor(value: T, isNot: boolean = false)
ExpectImpl(value, isNot) == [value |-> value, isNot |-> isNot]

\* get not()
not(self) == ExpectImpl(self.value, ~self.isNot)

assertIgnoresNot(self, passed) == IF passed THEN "pass" ELSE "fail"

\* private assert(passed, message, expected, actual)
assert(self, passed) ==
    IF (IF self.isNot THEN ~passed ELSE passed) THEN "pass" ELSE "fail"

RECURSIVE deepEqualAnyLength(_, _)
deepEqualAnyLength(a, b) ==
    IF ObjectIs(a, b) THEN TRUE
    ELSE IF StrictEquals(a, NullValue) \/ StrictEquals(b, NullValue) THEN FALSE
    ELSE IF TypeOf(a) # "object" \/ TypeOf(b) # "object" THEN FALSE
    ELSE \A i \in 1..Len(Keys(a)) :
            /\ HasOwn(b, Keys(a)[i])
            /\ deepEqualAnyLength(Get(a, Keys(a)[i]), Get(b, Keys(a)[i]))

\* private deepEqual(a, b)
RECURSIVE deepEqual(_, _)
deepEqual(a, b) ==
    IF ObjectIs(a, b) THEN TRUE
    ELSE IF StrictEquals(a, NullValue) \/ StrictEquals(b, NullValue) THEN FALSE
    ELSE IF TypeOf(a) # "object" \/ TypeOf(b) # "object" THEN FALSE
    ELSE /\ Len(Keys(a)) = Len(Keys(b))
         /\ \A i \in 1..Len(Keys(a)) :
               /\ HasOwn(b, Keys(a)[i])
               /\ deepEqual(Get(a, Keys(a)[i]), Get(b, Keys(a)[i]))

\* for (const key in pattern), of a pattern that is an object or an array
objectMatches(object, pattern) ==
    \A i \in 1..Len(Keys(pattern)) :
        /\ In(Keys(pattern)[i], object)
        /\ deepEqual(Get(object, Keys(pattern)[i]), Get(pattern, Keys(pattern)[i]))

toBe(self, expected) == assert(self, ObjectIs(self.value, expected))

toEqual(self, expected) == assert(self, deepEqual(self.value, expected))

toBeNull(self) == assert(self, StrictEquals(self.value, NullValue))

toBeUndefined(self) == assert(self, StrictEquals(self.value, Undefined))

toBeDefined(self) == assert(self, ~StrictEquals(self.value, Undefined))

toBeTruthy(self) == assert(self, Truthy(self.value))

toBeFalsy(self) == assert(self, ~Truthy(self.value))

toContainAssertsKind(self, item) ==
    IF self.value.type = "array"
      THEN assert(self, \E i \in 1..Len(Items(self.value)) :
                            SameValueZero(Items(self.value)[i], item))
    ELSE IF TypeOf(self.value) = "string"
      THEN assert(self, Includes(self.value.text, StringOf(item)))
    ELSE IF assert(self, FALSE) = "pass" THEN "pass" ELSE "usage"

\* toContain(item)
toContain(self, item) ==
    IF self.value.type = "array"
      THEN assert(self, \E i \in 1..Len(Items(self.value)) :
                            SameValueZero(Items(self.value)[i], item))
    ELSE IF TypeOf(self.value) = "string"
      THEN assert(self, Includes(self.value.text, StringOf(item)))
    ELSE "usage"

toHaveLength(self, length) ==
    LET actualLength == IF self.value.type \in {"undefined", "null"} THEN Undefined
                        ELSE Get(self.value, "length")
    IN  assert(self, StrictEquals(actualLength, length))

\* !mock || !mock.calls
NotAMock(value) == ~Truthy(value) \/ ~Truthy(Get(value, "calls"))

toHaveBeenCalled(self) ==
    IF NotAMock(self.value) THEN "usage"
    ELSE assert(self, Len(Items(Get(self.value, "calls"))) > 0)

toHaveBeenCalledTimes(self, times) ==
    IF NotAMock(self.value) THEN "usage"
    ELSE assert(self, StrictEquals(Get(Get(self.value, "calls"), "length"), times))

toHaveBeenCalledWith(self, args) ==
    IF NotAMock(self.value) THEN "usage"
    ELSE LET calls == Items(Get(self.value, "calls")) IN
         assert(self, \E c \in 1..Len(calls) :
                         LET callArgs == Items(Get(calls[c], "args")) IN
                         /\ Len(callArgs) = Len(args)
                         /\ \A i \in 1..Len(callArgs) : deepEqual(callArgs[i], args[i]))

toMatchObject(self, object) ==
    IF TypeOf(self.value) # "object" \/ StrictEquals(self.value, NullValue) THEN "usage"
    ELSE assert(self, objectMatches(self.value, object))

\* A MockFunction as the matchers see it: its properties that are not functions.  The
\* objects of a recorder have the references that follow ref.
MockObject(ref, m) ==
    Object(ref,
        << <<"name", Str(m.name)>>,
           <<"calls",
             Array(ref + 1,
                   [i \in 1..Len(m.calls) |->
                       Object(ref + 10 + i,
                              << <<"args", Array(ref + 20 + i, m.calls[i].args)>>,
                                 <<"result", m.calls[i].result>>,
                                 <<"error", m.calls[i].error>> >>)])>>,
           <<"returnValues", Array(ref + 2, m.returnValues)>>,
           <<"errors", Array(ref + 3, m.errors)>> >>)

\* The values a test expects something of, and compares them with.
One == Num("1")
Mocks ==
    {MockObject(100, MockFunction("tool", NoOptions)),
     MockObject(200, Record(MockFunction("tool", NoOptions), <<One>>, Returned(Undefined)))}
Subjects ==
    {Undefined, NullValue, Bool("false"), Num("NaN"), Num("+0"), Num("-0"), One,
     Str(""), Str("a"), Str("ab"),
     Array(1, <<One>>), Array(2, <<One>>), Array(3, <<Num("NaN"), Num("-0")>>),
     Object(4, << <<"a", One>> >>), Object(5, << <<"a", One>>, <<"b", Num("+0")>> >>),
     Object(6, << <<"a", One>>, <<"b", Object(7, << <<"c", Num("2")>> >>)>> >>),
     Object(8, << <<"b", Object(9, << <<"c", Num("2")>> >>)>>, <<"a", One>> >>)}
    \cup Mocks
Patterns == {v \in Subjects : v.type \in {"object", "array"}}
Lengths == {NumOf(0), NumOf(1), NumOf(2), Num("-0")}
ArgumentLists == {<<>>, <<One>>, <<Array(2, <<One>>)>>}

Matcher(name, on, args) == [name |-> name, on |-> on, args |-> args]
NoMatcher == Matcher("", 0, <<>>)

\* The test goes on: no matcher has thrown.
Running == chain # <<>> /\ verdict \in {"none", "pass"}

\* expect(value)
Expect ==
    \E value \in Subjects :
        /\ chain' = <<ExpectImpl(value, FALSE)>>
        /\ matcher' = NoMatcher
        /\ verdict' = "none"
        /\ UNCHANGED <<vars, mockVars, serverVars>>

\* .not
Not ==
    /\ Running
    /\ Len(chain) <= MaxNots
    /\ chain' = Append(chain, not(chain[Len(chain)]))
    /\ UNCHANGED <<matcher, verdict, vars, mockVars, serverVars>>

ToBe ==
    \E on \in 1..Len(chain), expected \in Subjects :
        /\ Running
        /\ matcher' = Matcher("toBe", on, <<expected>>)
        /\ verdict' = toBe(chain[on], expected)
        /\ UNCHANGED <<chain, vars, mockVars, serverVars>>

ToEqual ==
    \E on \in 1..Len(chain), expected \in Subjects :
        /\ Running
        /\ matcher' = Matcher("toEqual", on, <<expected>>)
        /\ verdict' = toEqual(chain[on], expected)
        /\ UNCHANGED <<chain, vars, mockVars, serverVars>>

ToBeNull ==
    \E on \in 1..Len(chain) :
        /\ Running
        /\ matcher' = Matcher("toBeNull", on, <<>>)
        /\ verdict' = toBeNull(chain[on])
        /\ UNCHANGED <<chain, vars, mockVars, serverVars>>

ToBeUndefined ==
    \E on \in 1..Len(chain) :
        /\ Running
        /\ matcher' = Matcher("toBeUndefined", on, <<>>)
        /\ verdict' = toBeUndefined(chain[on])
        /\ UNCHANGED <<chain, vars, mockVars, serverVars>>

ToBeDefined ==
    \E on \in 1..Len(chain) :
        /\ Running
        /\ matcher' = Matcher("toBeDefined", on, <<>>)
        /\ verdict' = toBeDefined(chain[on])
        /\ UNCHANGED <<chain, vars, mockVars, serverVars>>

ToBeTruthy ==
    \E on \in 1..Len(chain) :
        /\ Running
        /\ matcher' = Matcher("toBeTruthy", on, <<>>)
        /\ verdict' = toBeTruthy(chain[on])
        /\ UNCHANGED <<chain, vars, mockVars, serverVars>>

ToBeFalsy ==
    \E on \in 1..Len(chain) :
        /\ Running
        /\ matcher' = Matcher("toBeFalsy", on, <<>>)
        /\ verdict' = toBeFalsy(chain[on])
        /\ UNCHANGED <<chain, vars, mockVars, serverVars>>

ToContain ==
    \E on \in 1..Len(chain), item \in Subjects :
        /\ Running
        /\ matcher' = Matcher("toContain", on, <<item>>)
        /\ verdict' = toContain(chain[on], item)
        /\ UNCHANGED <<chain, vars, mockVars, serverVars>>

ToHaveLength ==
    \E on \in 1..Len(chain), length \in Lengths :
        /\ Running
        /\ matcher' = Matcher("toHaveLength", on, <<length>>)
        /\ verdict' = toHaveLength(chain[on], length)
        /\ UNCHANGED <<chain, vars, mockVars, serverVars>>

ToHaveBeenCalled ==
    \E on \in 1..Len(chain) :
        /\ Running
        /\ matcher' = Matcher("toHaveBeenCalled", on, <<>>)
        /\ verdict' = toHaveBeenCalled(chain[on])
        /\ UNCHANGED <<chain, vars, mockVars, serverVars>>

ToHaveBeenCalledTimes ==
    \E on \in 1..Len(chain), times \in Lengths :
        /\ Running
        /\ matcher' = Matcher("toHaveBeenCalledTimes", on, <<times>>)
        /\ verdict' = toHaveBeenCalledTimes(chain[on], times)
        /\ UNCHANGED <<chain, vars, mockVars, serverVars>>

ToHaveBeenCalledWith ==
    \E on \in 1..Len(chain), args \in ArgumentLists :
        /\ Running
        /\ matcher' = Matcher("toHaveBeenCalledWith", on, args)
        /\ verdict' = toHaveBeenCalledWith(chain[on], args)
        /\ UNCHANGED <<chain, vars, mockVars, serverVars>>

ToMatchObject ==
    \E on \in 1..Len(chain), object \in Patterns :
        /\ Running
        /\ matcher' = Matcher("toMatchObject", on, <<object>>)
        /\ verdict' = toMatchObject(chain[on], object)
        /\ UNCHANGED <<chain, vars, mockVars, serverVars>>

InitExpect ==
    /\ chain = <<>>
    /\ matcher = NoMatcher
    /\ verdict = "none"

\* What a test does with expect.
Expectations ==
    \/ Expect \/ Not
    \/ ToBe \/ ToEqual \/ ToBeNull \/ ToBeUndefined \/ ToBeDefined
    \/ ToBeTruthy \/ ToBeFalsy \/ ToContain \/ ToHaveLength
    \/ ToHaveBeenCalled \/ ToHaveBeenCalledTimes \/ ToHaveBeenCalledWith
    \/ ToMatchObject

----------------------------------------------------------------------------
(* Assertion engine: the async projections and toThrow of expect.ts        *)
(*                                                                         *)
(* A function is known by what a call of it with no argument does: it      *)
(* returns, or it throws a value.  A RegExp is a pattern without           *)
(* metacharacters, which matches the strings that include its source.  A   *)
(* matcher of a projection returns a promise: "pass" when it is fulfilled, *)
(* "fail" when it is rejected with an AssertionError and "error" when it   *)
(* is rejected with anything else; "error" is also a matcher that throws   *)
(* a TypeError of the language.                                            *)

\* `.resolves` and `.rejects` are applied at most this many times in one expectation.
MaxProjections == 1

\* () => value and () => { throw value }
Callable(ref, throws, value) ==
    [type |-> "function", text |-> "", ref |-> ref,
     props |-> <<<<IF throws THEN "throws" ELSE "returns", value>>>>]
Throws(function) == function.props[1][1] = "throws"
ThrownBy(function) == function.props[1][2]

\* /source/ and the class Error itself
RegExp(source) == Value("RegExp", source)
ErrorClass == Value("function", "Error")

\* class ResolveExpect<T> extends ExpectImpl<T>: constructor(private promise, isNot)
ResolveExpect(promise, isNot) ==
    [value |-> promise, isNot |-> isNot, promise |-> promise, class |-> "ResolveExpect"]

\* class RejectExpect extends ExpectImpl<any>: constructor(private promise, isNot)
RejectExpect(promise, isNot) ==
    [value |-> promise, isNot |-> isNot, promise |-> promise, class |-> "RejectExpect"]

\* self instanceof ResolveExpect, self instanceof RejectExpect
IsA(self, class) == "class" \in DOMAIN self /\ self.class = class

\* thrownError.message, of an error that is not null or undefined
MessageOf(thrownError) ==
    IF thrownError.type = "Error" THEN Str(thrownError.text) ELSE Undefined

toThrowAssertsAnyKind(self, error) ==
    IF TypeOf(self.value) # "function" THEN "usage"
    ELSE LET didThrow == Throws(self.value)
             thrownError == IF didThrow THEN ThrownBy(self.value) ELSE Undefined
         IN  IF StrictEquals(error, Undefined) THEN assert(self, didThrow)
             ELSE IF TypeOf(error) = "string"
               THEN IF didThrow /\ MessageOf(thrownError) = Undefined THEN "error"
                    ELSE assert(self, didThrow /\ Includes(MessageOf(thrownError).text,
                                                         error.text))
             ELSE IF error.type = "RegExp"
               THEN assert(self, didThrow /\ Includes(StringOf(MessageOf(thrownError)),
                                                    error.text))
             ELSE IF error.type = "Error"
               THEN assert(self, didThrow /\ thrownError.type = "Error")
             ELSE assert(self, didThrow)

\* toThrow(error?: string | RegExp | Error)
toThrow(self, error) ==
    IF TypeOf(self.value) # "function" THEN "usage"
    ELSE LET didThrow == Throws(self.value)
             thrownError == IF didThrow THEN ThrownBy(self.value) ELSE Undefined
         IN  IF StrictEquals(error, Undefined) THEN assert(self, didThrow)
             ELSE IF TypeOf(error) = "string"
               THEN IF didThrow /\ MessageOf(thrownError) = Undefined THEN "error"
                    ELSE assert(self, didThrow /\ Includes(MessageOf(thrownError).text,
                                                         error.text))
             ELSE IF error.type = "RegExp"
               THEN assert(self, didThrow /\ Includes(StringOf(MessageOf(thrownError)),
                                                    error.text))
             ELSE IF error.type = "Error"
               THEN assert(self, didThrow /\ thrownError.type = "Error")
             ELSE "pass"

\* ResolveExpect: async toBe(expected)
ResolveExpect_toBe(self, expected) ==
    IF ~Fulfils(self.promise) THEN "error"
    ELSE toBe(ExpectImpl(Settlement(self.promise), FALSE), expected)

\* ResolveExpect: async toEqual(expected)
ResolveExpect_toEqual(self, expected) ==
    IF ~Fulfils(self.promise) THEN "error"
    ELSE toEqual(ExpectImpl(Settlement(self.promise), FALSE), expected)

\* RejectExpect: async toThrow(error?: string | RegExp | Error)
RejectExpect_toThrow(self, error) ==
    LET didThrow == ~Fulfils(self.promise)
        thrownError == Settlement(self.promise)
    IN  IF ~didThrow THEN "fail"
        ELSE IF StrictEquals(error, Undefined) THEN "pass"
        ELSE IF TypeOf(error) = "string"
          THEN IF MessageOf(thrownError) = Undefined THEN "error"
               ELSE IF ~Includes(MessageOf(thrownError).text, error.text) THEN "fail"
               ELSE "pass"
        ELSE IF error.type = "RegExp"
          THEN IF ~Includes(StringOf(MessageOf(thrownError)), error.text) THEN "fail"
               ELSE "pass"
        ELSE "pass"

\* The promises and the functions a test expects something of, what it compares a
\* resolved value with, and what it expects to be thrown.
Promises ==
    {Promise("settled", TRUE, One), Promise("settled", TRUE, Object(4, << <<"a", One>> >>)),
     Promise("settled", FALSE, Error("boom")), Promise("settled", FALSE, Str("boom"))}
Functions ==
    {Callable(6, FALSE, Undefined), Callable(7, TRUE, Error("boom")),
     Callable(8, TRUE, Str("boom"))}
Resolutions == {One, Num("2"), Object(4, << <<"a", One>> >>), Object(5, << <<"a", One>> >>)}
ExpectedErrors ==
    {Undefined, Str("boom"), Str("bang"), RegExp("oo"), RegExp("a"), Error("other"),
     ErrorClass, One}

Projected == Cardinality({k \in 1..Len(chain) : "class" \in DOMAIN chain[k]})

\* expect(value), of a promise, a function or a number
ExpectAsync ==
    \E value \in Promises \cup Functions \cup {One} :
        /\ chain' = <<ExpectImpl(value, FALSE)>>
        /\ matcher' = NoMatcher
        /\ verdict' = "none"
        /\ UNCHANGED <<vars, mockVars, serverVars>>

\* get resolves()
Resolves ==
    /\ Running
    /\ Projected < MaxProjections
    /\ LET self == chain[Len(chain)] IN
       IF self.value.type # "promise"
         THEN /\ matcher' = Matcher("resolves", Len(chain), <<>>)
              /\ verdict' = "usage"
              /\ UNCHANGED chain
         ELSE /\ chain' = Append(chain, ResolveExpect(self.value, self.isNot))
              /\ UNCHANGED <<matcher, verdict>>
    /\ UNCHANGED <<vars, mockVars, serverVars>>

\* get rejects()
Rejects ==
    /\ Running
    /\ Projected < MaxProjections
    /\ LET self == chain[Len(chain)] IN
       IF self.value.type # "promise"
         THEN /\ matcher' = Matcher("rejects", Len(chain), <<>>)
              /\ verdict' = "usage"
              /\ UNCHANGED chain
         ELSE /\ chain' = Append(chain, RejectExpect(self.value, self.isNot))
              /\ UNCHANGED <<matcher, verdict>>
    /\ UNCHANGED <<vars, mockVars, serverVars>>

ResolvesToBe ==
    \E on \in 1..Len(chain), expected \in Resolutions :
        /\ Running
        /\ IsA(chain[on], "ResolveExpect")
        /\ matcher' = Matcher("resolves.toBe", on, <<expected>>)
        /\ verdict' = ResolveExpect_toBe(chain[on], expected)
        /\ UNCHANGED <<chain, vars, mockVars, serverVars>>

ResolvesToEqual ==
    \E on \in 1..Len(chain), expected \in Resolutions :
        /\ Running
        /\ IsA(chain[on], "ResolveExpect")
        /\ matcher' = Matcher("resolves.toEqual", on, <<expected>>)
        /\ verdict' = ResolveExpect_toEqual(chain[on], expected)
        /\ UNCHANGED <<chain, vars, mockVars, serverVars>>

RejectsToThrow ==
    \E on \in 1..Len(chain), error \in ExpectedErrors :
        /\ Running
        /\ IsA(chain[on], "RejectExpect")
        /\ matcher' = Matcher("rejects.toThrow", on, <<error>>)
        /\ verdict' = RejectExpect_toThrow(chain[on], error)
        /\ UNCHANGED <<chain, vars, mockVars, serverVars>>

ToThrow ==
    \E on \in 1..Len(chain), error \in ExpectedErrors :
        /\ Running
        /\ ~IsA(chain[on], "RejectExpect")
        /\ matcher' = Matcher("toThrow", on, <<error>>)
        /\ verdict' = toThrow(chain[on], error)
        /\ UNCHANGED <<chain, vars, mockVars, serverVars>>

\* What a test does with expect on promises and functions.
Projections ==
    \/ ExpectAsync \/ Not \/ Resolves \/ Rejects
    \/ ResolvesToBe \/ ResolvesToEqual \/ RejectsToThrow \/ ToThrow

----------------------------------------------------------------------------
Init ==
    /\ suites = <<>>
    /\ rootSuites = <<>>
    /\ currentSuite = Null
    /\ nextTest = 1
    /\ defStack = <<>>
    /\ exc = "none"
    /\ cleared = NotCleared
    /\ runState = "idle"
    /\ results = <<>>
    /\ rootIdx = 1
    /\ runStack = <<>>
    /\ returned = <<>>
    /\ thrown = NoError
    /\ log = <<>>
    /\ inFlight = {}
    /\ previous = NoRun
    /\ InitMock
    /\ InitServer
    /\ InitExpect

Next == Register \/ Run

Spec == Init /\ [][Next]_vars

\* The registry and the runner, with runs that are compared with the run before them.
SpecTwice == Init /\ [][Next \/ RunAgain]_vars

\* The Call Recorder on its own: the operations of a test on one recorder.
SpecMock == Init /\ [][Recorder]_mockVars

\* A spy on the method of an object.
SpecSpy == Init /\ [][Spy]_mockVars

\* A mock server on its own.
SpecServer == Init /\ [][Server]_serverVars

\* The assertion engine on its own: the expectations of a test.
SpecExpect == Init /\ [][Expectations]_expectVars

\* The assertion engine on promises and functions: projections and toThrow.
SpecAsync == Init /\ [][Projections]_expectVars

\* The runner on one suite with several after-each hooks: the registry after
\*   describe(1, () => { beforeEach(...)?; test(1); test(2)?; afterEach(...) ... })
\* with up to MaxAfterEach after-each hooks.
MaxAfterEach == 3
MaxHookedTests == 2

HookedSuite(before, tests, after) ==
    [NewSuite(1, FALSE, FALSE) EXCEPT
        !.beforeEach = [k \in 1..before |-> HookFn("beforeEach", 1, k)],
        !.tests = [k \in 1..tests |-> NewTest(k, FALSE, FALSE)],
        !.afterEach = [k \in 1..after |-> HookFn("afterEach", 1, k)]]

InitHooked ==
    /\ \E before \in 0..1, tests \in 1..MaxHookedTests, after \in 1..MaxAfterEach :
          /\ suites = <<HookedSuite(before, tests, after)>>
          /\ nextTest = tests + 1
    /\ rootSuites = <<1>>
    /\ currentSuite = Null
    /\ defStack = <<>>
    /\ exc = "none"
    /\ cleared = NotCleared
    /\ runState = "idle"
    /\ results = <<>>
    /\ rootIdx = 1
    /\ runStack = <<>>
    /\ returned = <<>>
    /\ thrown = NoError
    /\ log = <<>>
    /\ inFlight = {}
    /\ previous = NoRun
    /\ InitMock
    /\ InitServer
    /\ InitExpect

\* What runAllTests does with such a registry.
RunHooked ==
    \/ RunAllTests \/ RunAllCall \/ RunAllReturn \/ RunSettled
    \/ RunCall \/ RunSuiteHasOnly \/ RunTestCall
    \/ RunTestBeforeEach \/ RunTestBody \/ RunTestAfterEach \/ RunTestPassed
    \/ RunTestCleanup \/ RunTestFailed
    \/ RunSuiteTestsDone \/ RunSuiteNestedDone \/ RunSuiteReturn

SpecHooked == InitHooked /\ [][RunHooked]_vars

----------------------------------------------------------------------------
(* Vocabulary of the properties                                            *)

SuiteIds == 1..Len(suites)

\* The suite in whose body suite s was declared, Null for a top-level suite.
ParentOf(s) ==
    LET parents == {p \in SuiteIds : Some(suites[p].suites, LAMBDA c : c = s)}
    IN  IF parents = {} THEN Null ELSE CHOOSE p \in parents : TRUE

RECURSIVE AncestorsOrSelf(_)
AncestorsOrSelf(s) ==
    IF s = Null THEN {} ELSE {s} \cup AncestorsOrSelf(ParentOf(s))

\* The suite in whose body the test named n was declared.
OwnerOf(n) == CHOOSE s \in SuiteIds : Some(suites[s].tests, LAMBDA t : t.name = n)

TestNamed(n) == CHOOSE t \in Range(suites[OwnerOf(n)].tests) : t.name = n

\* Suite s is selected by a run: no skip flag on it or on an enclosing suite, and an
\* only flag wherever the enclosing suite is in only-mode.
RECURSIVE Selected(_)
Selected(s) ==
    LET parent == ParentOf(s) IN
    /\ ~suites[s].skip
    /\ IF parent = Null
         THEN s \in Range(rootSuites)
         ELSE /\ HasOnly(suites[parent]) => suites[s].only
              /\ Selected(parent)

\* Positions <<k, p>> of the TestResults named n in the value runAllTests returned.
ReturnedFor(n) ==
    {kp \in {<<k, p>> : k \in 1..Len(returned), p \in 1..MaxObjects} :
        /\ kp[2] <= Len(returned[kp[1]].tests)
        /\ returned[kp[1]].tests[kp[2]].name = n}

\* Positions of the log at which a user function was awaited on behalf of test n.
LogFor(n) == {k \in 1..Len(log) : log[k].test = n}

IsBody(e) == e.fn[1] = "test"

\* The suite in whose body the user function fn was registered.
SuiteOf(fn) == IF fn[1] = "test" THEN OwnerOf(fn[2]) ELSE fn[2]

\* Suite s is a root suite of the registry or nested, at any depth, in one.
InRegistry(s) == \E r \in Range(rootSuites) : r \in AncestorsOrSelf(s)

----------------------------------------------------------------------------
(* Claims                                                                  *)

\* C1: runAllTests returns exactly one SuiteResult for each top-level suite whose skip
\* flag is unset, in registration order, and none for a skipped top-level suite or for
\* a nested suite (the names of the returned results are exactly the names of the
\* non-skipped top-level suites, in order).
C1_OneResultPerTopLevelSuite ==
    runState = "returned" =>
        LET run == SelectSeq(rootSuites, LAMBDA s : ~suites[s].skip) IN
        /\ Len(returned) = Len(run)
        /\ \A k \in 1..Len(run) : returned[k].name = <<suites[run[k]].name>>

C1_Witness ==
    /\ runState = "returned"
    /\ Len(returned) >= 2
    /\ \E k \in 1..Len(rootSuites) :
          /\ suites[rootSuites[k]].skip
          /\ k < Len(rootSuites)
    /\ \E s \in SuiteIds : ParentOf(s) # Null /\ Selected(s)

C3_SkippedTestRecordedNotRun ==
    /\ \A k \in 1..Len(log) : log[k].test # Null => ~TestNamed(log[k].test).skip
    /\ runState = "returned" =>
          \A s \in SuiteIds : \A t \in Range(suites[s].tests) :
              (Selected(s) /\ t.skip) =>
                  /\ Cardinality(ReturnedFor(t.name)) = 1
                  /\ \A kp \in ReturnedFor(t.name) :
                        returned[kp[1]].tests[kp[2]] =
                            [name |-> t.name, passed |-> TRUE, error |-> NoError,
                             duration |-> 0]

C3_Witness ==
    /\ runState = "returned"
    /\ \E s \in SuiteIds :
          /\ Selected(s)
          /\ HasOnly(suites[s])
          /\ suites[s].beforeEach # <<>>
          /\ \E t, u \in Range(suites[s].tests) :
                t.skip /\ u.only /\ ReturnedFor(t.name) # {} /\ LogFor(u.name) # {}

\* C4 (as stated): in a suite with a direct child test marked only, every direct child
\* test not marked only is absent from the result list and its body is never run.
C4_NonOnlyAbsent ==
    runState = "returned" =>
        \A s \in SuiteIds : \A t \in Range(suites[s].tests) :
            (Selected(s) /\ (\E u \in Range(suites[s].tests) : u.only) /\ ~t.only) =>
                ReturnedFor(t.name) = {} /\ LogFor(t.name) = {}

\* C4 (amended): in a suite with a direct child test marked only, every direct child
\* test that is neither marked only nor declared with skip is absent from the result
\* list (no TestResult at all) and neither its body nor a hook is awaited for it.
C4_NonOnlyNonSkipAbsent ==
    /\ \A s \in SuiteIds : \A t \in Range(suites[s].tests) :
          ((\E u \in Range(suites[s].tests) : u.only) /\ ~t.only /\ ~t.skip) =>
              LogFor(t.name) = {}
    /\ runState = "returned" =>
          \A s \in SuiteIds : \A t \in Range(suites[s].tests) :
              ((\E u \in Range(suites[s].tests) : u.only) /\ ~t.only /\ ~t.skip) =>
                  ReturnedFor(t.name) = {}

C4_Witness ==
    /\ runState = "returned"
    /\ \E s \in SuiteIds :
          /\ Selected(s)
          /\ \E t, u \in Range(suites[s].tests) :
                /\ ~t.only /\ ~t.skip /\ u.only
                /\ t.name < u.name
                /\ ReturnedFor(u.name) # {}
\* Every TestResult recorded so far by the current run: in a runSuite still executing,
\* in a SuiteResult runAllTests holds, or in the value it returned.
Recorded ==
    UNION ({Range(runStack[k].results) : k \in 1..Len(runStack)}
           \cup {Range(results[k].tests) : k \in 1..Len(results)}
           \cup {Range(returned[k].tests) : k \in 1..Len(returned)})

\* C5: for every executed test, all before-each hooks of its suite complete, in
\* declaration order, immediately before its body starts and after everything awaited
\* for the previous test: nothing is awaited for a test before those hooks, and what is
\* awaited for one test is never interleaved with what is awaited for another.
C5_BeforeEachBeforeBody ==
    /\ \A p \in 1..Len(log) :
          IsBody(log[p]) =>
              LET n == log[p].test
                  hooks == suites[OwnerOf(n)].beforeEach
                  m == Len(hooks)
              IN  /\ p > m
                  /\ \A k \in 1..m :
                        log[p - m - 1 + k] = [fn |-> hooks[k], test |-> n, outcome |-> "ok"]
                  /\ \A k \in 1..(p - m - 1) : log[k].test # n
    /\ \A a, c \in 1..Len(log) :
          (a < c /\ log[a].test # Null /\ log[a].test = log[c].test)
              => \A b \in a..c : log[b].test = log[a].test

C5_Witness ==
    \E p, q \in 1..Len(log) :
        /\ p < q
        /\ IsBody(log[p]) /\ IsBody(log[q])
        /\ OwnerOf(log[p].test) = OwnerOf(log[q].test)
        /\ suites[OwnerOf(log[p].test)].beforeEach # <<>>

\* C6: when a test body fails, the after-each hooks of its suite are still awaited (the
\* first of them right after the body, before any TestResult is recorded for the test),
\* and the TestResult of the test is passed = false with the body's error, also when an
\* after-each hook fails in that cleanup pass.
C6_BodyFailureKeepsItsError ==
    \A p \in 1..Len(log) :
        (IsBody(log[p]) /\ log[p].outcome = "throws") =>
            LET n == log[p].test
                after == suites[OwnerOf(n)].afterEach
            IN  /\ (after # <<>> /\ p < Len(log)) =>
                      (log[p + 1].fn = after[1] /\ log[p + 1].test = n)
                /\ (after # <<>> /\ p = Len(log)) =>
                      (At("cleanup") /\ \A r \in Recorded : r.name # n)
                /\ \A r \in Recorded :
                      r.name = n => (~r.passed /\ r.error = log[p].fn)
                /\ runState = "returned" => ReturnedFor(n) # {}

C6_Witness ==
    \E p \in 1..Len(log) :
        /\ IsBody(log[p]) /\ log[p].outcome = "throws"
        /\ p < Len(log)
        /\ log[p + 1].fn[1] = "afterEach" /\ log[p + 1].outcome = "throws"
        /\ \E r \in Recorded : r.name = log[p].test

\* The direct child tests of a selected suite that its run records or executes.
Reported(s) ==
    {t \in Range(suites[s].tests) : TestStep(t, HasOnly(suites[s])) # "omit"}

\* C7: a failure of a test body never leaves runTest: runAllTests only ever fails with
\* the error of a before-all or after-all hook, a TestResult is passed = false exactly
\* when something awaited for that very test threw, and when the run returns every
\* test of every selected suite is reported once and every non-skipped one was started
\* (its body, or a before-each hook that failed, was awaited).
C7_BodyFailureStaysInItsTest ==
    /\ runState = "thrown" => thrown[1] \in {"beforeAll", "afterAll"}
    /\ \A r \in Recorded :
          r.passed <=> (\A k \in LogFor(r.name) : log[k].outcome = "ok")
    /\ runState = "returned" =>
          \A s \in SuiteIds : Selected(s) =>
              \A t \in Reported(s) :
                  /\ Cardinality(ReturnedFor(t.name)) = 1
                  /\ ~t.skip => \E k \in LogFor(t.name) :
                                    \/ IsBody(log[k])
                                    \/ log[k].fn[1] = "beforeEach" /\ log[k].outcome = "throws"

C7_Witness ==
    /\ runState = "returned"
    /\ \E p, q \in 1..Len(log) :
          /\ p < q
          /\ IsBody(log[p]) /\ log[p].outcome = "throws"
          /\ IsBody(log[q])
          /\ OwnerOf(log[p].test) # OwnerOf(log[q].test)

\* C8: if a before-all hook of any suite fails, nothing is awaited after it (no test of
\* that suite, no after-all hook of it or of an enclosing suite, no later suite), the
\* failure is no TestResult, and runAllTests fails with the hook's error and returns
\* no SuiteResult, not even those of suites that had completed.
C8_BeforeAllFailureIsFatal ==
    \A p \in 1..Len(log) :
        (log[p].fn[1] = "beforeAll" /\ log[p].outcome = "throws") =>
            LET s == log[p].fn[2] IN
            /\ p = Len(log)
            /\ runState = "thrown"
            /\ thrown = log[p].fn
            /\ returned = <<>> /\ results = <<>> /\ runStack = <<>>
            /\ \A k \in 1..Len(log) : log[k].test # Null => OwnerOf(log[k].test) # s
            /\ \A k \in 1..Len(log) :
                  log[k].fn[1] = "afterAll" => log[k].fn[2] \notin AncestorsOrSelf(s)

C8_Witness ==
    /\ runState = "thrown"
    /\ \E p \in 1..Len(log) :
          /\ log[p].fn[1] = "beforeAll" /\ log[p].outcome = "throws"
          /\ ParentOf(log[p].fn[2]) # Null
          /\ suites[ParentOf(log[p].fn[2])].afterAll # <<>>

\* C9: describe and describe.only save the current-suite pointer when they are called
\* and leave, by return or by exception, with the pointer back at that value; so the
\* pointer is none whenever no describe call is executing, and a declaration is only
\* ever attached to the suite whose definition action is executing innermost.
C9_PointerRestored ==
    [][/\ Len(defStack') < Len(defStack) =>
            /\ currentSuite' = defStack[Len(defStack)].previousSuite
            /\ defStack' = SubSeq(defStack, 1, Len(defStack) - 1)
       /\ Len(defStack') > Len(defStack) =>
            /\ defStack'[Len(defStack')].previousSuite = currentSuite
            /\ defStack'[Len(defStack')].callee \in {"describe", "describe.only"}
            /\ SubSeq(defStack', 1, Len(defStack)) = defStack
       /\ Len(defStack') = Len(defStack) => defStack' = defStack
       /\ defStack' = <<>> => currentSuite' = Null
       /\ \A s \in 1..Len(suites) :
            (s <= Len(suites') /\ suites'[s] # suites[s]) =>
                (s = currentSuite /\ s = defStack[Len(defStack)].suite)
      ]_vars

C9_Witness ==
    /\ exc = "definition failed"
    /\ defStack = <<>>
    /\ currentSuite = Null
    /\ \E s \in SuiteIds : ParentOf(s) # Null /\ suites[s].only

RegistrationErrors ==
    {"test() must be called inside describe()",
     "test.skip() must be called inside describe()",
     "test.only() must be called inside describe()",
     "beforeEach() must be called inside describe()",
     "afterEach() must be called inside describe()",
     "beforeAll() must be called inside describe()",
     "afterAll() must be called inside describe()"}

\* C10: test, test.skip, test.only, beforeEach, afterEach, beforeAll and afterAll,
\* called while the current-suite pointer is none, fail with an error and leave the
\* root registry, every registered suite and the pointer unchanged.
C10_DeclarationOutsideSuiteFails ==
    [][(/\ currentSuite = Null
        /\ \/ Test \/ TestSkip \/ TestOnly
           \/ BeforeEach \/ AfterEach \/ BeforeAll \/ AfterAll)
       => (/\ exc' \in RegistrationErrors
           /\ UNCHANGED <<rootSuites, suites, currentSuite, nextTest, defStack>>)
      ]_vars

C10_Witness ==
    /\ exc \in RegistrationErrors
    /\ currentSuite = Null
    /\ rootSuites # <<>>
    /\ \E s \in SuiteIds : suites[s].tests # <<>>

Produced ==
    Range(results) \cup Range(returned)
    \cup {SuiteResult(runStack[k]) : k \in
             {j \in 1..Len(runStack) :
                 /\ runStack[j].pc = "afterAll"
                 /\ runStack[j].j > Len(suites[runStack[j].suite].afterAll)}}

\* C18: in every SuiteResult, passed is the number of entries of its flat test list
\* (own tests and spliced-in nested results) with passed = true, failed is the number
\* with passed = false, and passed + failed is the length of the list.
C18_CountsMatchTestList ==
    \A r \in Produced :
        /\ r.passed = Cardinality({k \in 1..Len(r.tests) : r.tests[k].passed = TRUE})
        /\ r.failed = Cardinality({k \in 1..Len(r.tests) : r.tests[k].passed = FALSE})
        /\ r.passed + r.failed = Len(r.tests)

\* A top-level suite with one passing and one failing test of its own: passed = 1,
\* failed = 1, skipped = 0.
C18_Witness ==
    /\ runState = "returned"
    /\ \E r \in Range(returned) :
          /\ Len(r.name) = 1
          /\ Len(r.tests) = 2
          /\ r.passed = 1 /\ r.failed = 1 /\ r.skipped = 0
          /\ \A k \in 1..2 : OwnerOf(r.tests[k].name) = r.name[1]

----------------------------------------------------------------------------
(* Claims about the Call Recorder                                          *)

\* expect(mock).toHaveBeenCalledTimes(times)
WasCalledTimes(m, times) ==
    toHaveBeenCalledTimes(ExpectImpl(MockObject(100, m), FALSE), NumOf(times))

\* The behaviour of the invocation that `last` describes failed: it threw, or the
\* promise it returned was rejected; and what it failed with.
Failed(l) ==
    \/ l.behaved.type = "throw"
    \/ l.behaved.value.type = "promise" /\ ~Fulfils(l.behaved.value)
Failure(l) ==
    IF l.behaved.type = "throw" THEN l.behaved.value ELSE Settlement(l.behaved.value)

\* The step completes an invocation: execute resumes after its await, or it never
\* had to wait.
Completes(l) ==
    \/ l.op = "settle"
    \/ l.op \in {"execute", "call"} /\ l.outcome.type # "pending"

IsPrefix(s, t) == Len(s) <= Len(t) /\ SubSeq(t, 1, Len(s)) = s

\* C12: every completed invocation appends exactly one CallRecord, with the arguments
\* of the invocation, whether the behaviour returned or failed: on failure the record
\* carries the error, the error history grows by that error, the return-value history
\* stays, the caller gets the same error thrown, and was-called-times counts the call;
\* otherwise the record carries the result and the return-value history grows by it.
C12_EveryCompletionRecorded ==
    [][Completes(last') =>
          /\ Len(mock'.calls) = Len(mock.calls) + 1
          /\ SubSeq(mock'.calls, 1, Len(mock.calls)) = mock.calls
          /\ WasCalledTimes(mock', Len(mock.calls) + 1) = "pass"
          /\ LET call == mock'.calls[Len(mock'.calls)] IN
             /\ call.args = last'.args
             /\ IF Failed(last')
                  THEN /\ call.error = Failure(last')
                       /\ mock'.errors = Append(mock.errors, Failure(last'))
                       /\ mock'.returnValues = mock.returnValues
                       /\ last'.outcome = Thrown(Failure(last'))
                  ELSE /\ call.error = Undefined
                       /\ mock'.returnValues = Append(mock.returnValues, call.result)
                       /\ mock'.errors = mock.errors
                       /\ last'.outcome = Returned(call.result)]_mockVars

\* A rejected promise has just been recorded as a failed call, after a call that
\* threw at once and one that returned.
C12_Witness ==
    /\ last.op = "settle"
    /\ last.outcome.type = "throw"
    /\ Len(mock.calls) = 3
    /\ Len(mock.errors) = 2
    /\ \E k \in 1..3 : mock.calls[k].error = Undefined
    /\ \E k \in 1..3 : mock.calls[k].error = Error("missing")

\* C13: a recorder constructed with returnValue X only and then invoked n times, one
\* invocation after the other and nothing else done to it, has exactly n CallRecords,
\* in the order of the invocations, each with result X, no error and the arguments of
\* its invocation; its return-value history is X n times; was-called-times(n) passes
\* and was-called-times(m) fails for every other m.
C13_FixedReturnValue ==
    (/\ pristine.on
     /\ pending = <<>>
     /\ pristine.options.implementation = NoImplementation
     /\ pristine.options.throwError = Undefined) =>
        LET X == pristine.options.returnValue
            n == Len(pristine.invoked)
        IN
        /\ Len(mock.calls) = n
        /\ \A k \in 1..n :
              mock.calls[k] = [args |-> pristine.invoked[k], result |-> X,
                               error |-> Undefined]
        /\ Len(mock.returnValues) = n
        /\ \A k \in 1..n : mock.returnValues[k] = X
        /\ mock.errors = <<>>
        /\ \A m \in 0..(MaxCalls + 1) :
              WasCalledTimes(mock, m) = IF m = n THEN "pass" ELSE "fail"

C13_Witness ==
    /\ pristine.on
    /\ pending = <<>>
    /\ pristine.options = [NoOptions EXCEPT !.returnValue = Str("X")]
    /\ Len(pristine.invoked) = 3
    /\ pristine.invoked[1] # pristine.invoked[2]
    /\ Len(mock.calls) = 3

\* C14: the call history keeps what it holds, in order, through every operation but
\* mockClear and mockReset.  mockClear empties the call, return-value and error
\* histories and leaves the behaviour as it is, so that the next invocation does what
\* it would have done without the clear.  mockReset empties the histories too and
\* removes the behaviour: an invocation of a recorder without behaviour yields
\* undefined and is recorded.
C14_HistoryGrowsUnlessCleared ==
    [][/\ last'.op \notin {"mockClear", "mockReset"} => IsPrefix(mock.calls, mock'.calls)
       /\ last'.op \in {"mockClear", "mockReset"} =>
             /\ mock'.calls = <<>>
             /\ mock'.returnValues = <<>>
             /\ mock'.errors = <<>>
       /\ last'.op = "mockClear" =>
             /\ mock'.implementation = mock.implementation
             /\ \A args \in Arguments :
                   InvokeIfAny(mock'.implementation, args)
                       = InvokeIfAny(mock.implementation, args)
       /\ last'.op = "mockReset" => mock'.implementation = NoImplementation
       /\ (last'.op = "execute" /\ mock.implementation = NoImplementation) =>
             /\ last'.outcome = Returned(Undefined)
             /\ mock'.calls = Append(mock.calls, [args |-> last'.args, result |-> Undefined,
                                                  error |-> Undefined])]_mockVars

\* mockClear emptied a history of two invocations of a recorder with a one-shot
\* override, and the invocation that followed is the only one recorded.
C14_Witness ==
    /\ last.op = "settle"
    /\ shadow.active /\ shadow.consumed
    /\ script = [calls |-> 3, mutators |-> 2]
    /\ pending = <<>>
    /\ Len(mock.calls) = 1
    /\ Len(mock.returnValues) = 1

\* What the caller of an invocation gets when its behaviour completes with c.
Delivered(c) == IF c.type = "throw" THEN c ELSE Awaited(c.value)

\* C15: after mockReturnValueOnce(v) on a recorder whose behaviour is B, until another
\* behaviour mutator is applied, the behaviour returns v to the next invocation, and
\* does for every later invocation what B does for the same arguments (the same
\* result, the same failure, undefined when there was no behaviour); the caller of
\* each of these invocations gets that result or failure.
C15_OnceThenPrevious ==
    last.promised # NoCompletion =>
        /\ last.op \in {"execute", "call"} => last.behaved = last.promised
        /\ last.outcome.type # "pending" => last.outcome = Delivered(last.promised)

\* The one-shot value has been returned, and the invocation after it failed as the
\* behaviour configured before does for no arguments.
C15_Witness ==
    /\ shadow.active /\ shadow.consumed
    /\ shadow.behaviour.kind = "strict"
    /\ last.op = "execute"
    /\ last.promised = Thrown(Error("missing"))
    /\ Len(mock.calls) = 2
    /\ mock.calls[1].result = shadow.value

----------------------------------------------------------------------------
(* Claims about the assertion engine                                       *)

\* The synchronous matchers that report through `assert`
SyncMatchers ==
    {"toBe", "toEqual", "toBeNull", "toBeUndefined", "toBeDefined", "toBeTruthy",
     "toBeFalsy", "toContain", "toHaveLength", "toHaveBeenCalled",
     "toHaveBeenCalledTimes", "toHaveBeenCalledWith", "toMatchObject"}

\* The subject is of the kind the matcher requires.
Valid(name, value) ==
    CASE name = "toContain" -> value.type = "array" \/ value.type = "string"
      [] name \in {"toHaveBeenCalled", "toHaveBeenCalledTimes", "toHaveBeenCalledWith"} ->
           ~NotAMock(value)
      [] name = "toMatchObject" -> TypeOf(value) = "object" /\ value.type # "null"
      [] OTHER -> TRUE

\* The matcher of that name, called on an ExpectImpl
Call(name, self, args) ==
    CASE name = "toBe" -> toBe(self, args[1])
      [] name = "toEqual" -> toEqual(self, args[1])
      [] name = "toBeNull" -> toBeNull(self)
      [] name = "toBeUndefined" -> toBeUndefined(self)
      [] name = "toBeDefined" -> toBeDefined(self)
      [] name = "toBeTruthy" -> toBeTruthy(self)
      [] name = "toBeFalsy" -> toBeFalsy(self)
      [] name = "toContain" -> toContain(self, args[1])
      [] name = "toHaveLength" -> toHaveLength(self, args[1])
      [] name = "toHaveBeenCalled" -> toHaveBeenCalled(self)
      [] name = "toHaveBeenCalledTimes" -> toHaveBeenCalledTimes(self, args[1])
      [] name = "toHaveBeenCalledWith" -> toHaveBeenCalledWith(self, args)
      [] name = "toMatchObject" -> toMatchObject(self, args[1])

\* C17: for each synchronous matcher that reports through assert and a subject of the
\* kind it requires, the call passes or fails; after one `.not` it passes exactly when
\* the same call on expect(value) fails, and after two it ends as that call does.
C17_NotInvertsOutcome ==
    (matcher.name \in SyncMatchers /\ Valid(matcher.name, chain[1].value)) =>
        LET plain == Call(matcher.name, ExpectImpl(chain[1].value, FALSE), matcher.args)
            nots == matcher.on - 1
        IN  /\ plain \in {"pass", "fail"}
            /\ verdict \in {"pass", "fail"}
            /\ nots = 1 => (verdict = "pass" <=> plain = "fail")
            /\ nots \in {0, 2} => verdict = plain

\* expect('ab').not.not.toContain('a') passes, as expect('ab').toContain('a') does.
C17_Witness ==
    /\ Len(chain) = 3
    /\ chain[1].value = Str("ab")
    /\ matcher = Matcher("toContain", 3, <<Str("a")>>)
    /\ verdict = "pass"

Zeros == {Num("+0"), Num("-0")}

----------------------------------------------------------------------------
(* Claims about the selection of suites and tests                          *)

\* A direct child test or a direct child suite of suite s carries the only flag.
OnlyAmongChildren(s) ==
    \/ \E t \in Range(suites[s].tests) : t.only
    \/ \E c \in Range(suites[s].suites) : suites[c].only

\* Suite s is reached by a run, as far as the flags of s, of its ancestors and of
\* their direct children tell: none of them is skipped, and each carries the only flag
\* where a direct child of its parent does.
RECURSIVE Reached(_)
Reached(s) ==
    /\ ~suites[s].skip
    /\ IF ParentOf(s) = Null
         THEN s \in Range(rootSuites)
         ELSE /\ Reached(ParentOf(s))
              /\ OnlyAmongChildren(ParentOf(s)) => suites[s].only

\* C21 as stated: an only flag deeper in the subtree of a suite that is run omits no
\* direct child test of it, and an only flag on a direct child suite omits every
\* direct child test without only: none of them is reported or executed.
C21_OnlySuiteOmitsOtherTests ==
    runState = "returned" =>
        \A s \in SuiteIds : \A t \in Range(suites[s].tests) :
            Reached(s) =>
                /\ ~OnlyAmongChildren(s) => ReturnedFor(t.name) # {}
                /\ ((\E c \in Range(suites[s].suites) : suites[c].only) /\ ~t.only) =>
                      (ReturnedFor(t.name) = {} /\ LogFor(t.name) = {})

\* C21: whether a direct child test is omitted is decided by the flags of the direct
\* children of its suite and of the ancestors of the suite alone.  A test of a suite
\* that is reached is reported exactly when it is declared with skip, or carries the
\* only flag, or no direct child of the suite carries it: an only flag deeper in the
\* subtree omits nothing, and an only flag on a direct child suite omits every direct
\* child test that has neither only nor skip.  Only tests that are not omitted and not
\* skipped are executed, and all of those are.
C21_OnlyModeFromDirectChildren ==
    \A s \in SuiteIds : \A t \in Range(suites[s].tests) :
        LET kept == Reached(s) /\ (t.skip \/ t.only \/ ~OnlyAmongChildren(s)) IN
        /\ LogFor(t.name) # {} => (kept /\ ~t.skip)
        /\ runState = "returned" =>
              /\ ReturnedFor(t.name) # {} <=> kept
              /\ (kept /\ ~t.skip) => LogFor(t.name) # {}

\* The run has executed a direct test of a suite that has no only flag among its direct
\* children while a test of a child suite carries one.
C21_Witness ==
    /\ runState = "returned"
    /\ \E s \in SuiteIds :
          /\ ~OnlyAmongChildren(s)
          /\ \E t \in Range(suites[s].tests) : LogFor(t.name) # {}
          /\ \E c \in Range(suites[s].suites) :
                \E u \in Range(suites[c].tests) : u.only /\ LogFor(u.name) # {}

\* The suites of the scope suite c was declared in: the children of its parent, or
\* the root registry.
Siblings(c) ==
    IF ParentOf(c) = Null THEN Range(rootSuites) ELSE Range(suites[ParentOf(c)].suites)

\* Suite c and the suites nested in it, at any depth.
Under(c) == {s \in SuiteIds : c \in AncestorsOrSelf(s)}

\* No test or hook of suite c or of a suite nested in it has been executed by the
\* current run, and no TestResult of such a test has been recorded.
Untouched(c) ==
    /\ \A k \in 1..Len(log) : SuiteOf(log[k].fn) \notin Under(c)
    /\ \A r \in Recorded : OwnerOf(r.name) \notin Under(c)

\* C22 as stated: in a scope that contains a suite marked only, the body of a parent
\* suite or the root registry, nothing of a sibling suite that is not marked only is
\* executed or reported.
C22_OnlySuiteExclusiveInScope ==
    \A c \in SuiteIds :
        ((\E d \in Siblings(c) : suites[d].only) /\ ~suites[c].only) => Untouched(c)

\* C22: in the body of a parent suite that contains a suite marked only, nothing of a
\* sibling suite that is not marked only is executed or reported; the root registry has
\* no only-mode: every top-level suite that is not skipped gets its SuiteResult, also
\* next to a top-level suite marked only.
C22_OnlySuiteExclusiveInParent ==
    /\ \A parent \in SuiteIds :
          Some(suites[parent].suites, LAMBDA d : suites[d].only) =>
              \A c \in Range(suites[parent].suites) : ~suites[c].only => Untouched(c)
    /\ runState = "returned" =>
          \A c \in Range(rootSuites) :
              ~suites[c].skip => \E k \in 1..Len(returned) : returned[k].name = <<c>>

\* A run has returned that left out a suite with a test next to a suite marked only in
\* the body of their parent.
C22_Witness ==
    /\ runState = "returned"
    /\ \E c \in SuiteIds :
          /\ ParentOf(c) # Null
          /\ Selected(ParentOf(c))
          /\ \E d \in Siblings(c) : suites[d].only
          /\ ~suites[c].only /\ ~suites[c].skip
          /\ suites[c].tests # <<>>

\* Nothing has been declared in suite s.
Empty(s) ==
    /\ s.tests = <<>> /\ s.suites = <<>>
    /\ s.beforeEach = <<>> /\ s.afterEach = <<>>
    /\ s.beforeAll = <<>> /\ s.afterAll = <<>>

\* C23: a call of describe.skip does not start the definition action of its suite and
\* leaves the current-suite pointer as it is, so nothing is ever declared in the suite;
\* no run enters the suite, awaits anything of it or records a TestResult of it, and no
\* SuiteResult carries its name: a parent's result names the parent only and counts as
\* skipped its own direct tests, a top-level skipped suite has no SuiteResult.
C23_SkippedSuiteContributesNothing ==
    [][/\ (Len(suites') = Len(suites) + 1 /\ suites'[Len(suites')].skip) =>
             /\ currentSuite' = currentSuite
             /\ defStack' = defStack
       /\ \A s \in 1..Len(suites') :
             suites'[s].skip =>
                 /\ Empty(suites'[s])
                 /\ \A k \in 1..Len(defStack') : defStack'[k].suite # s
                 /\ \A k \in 1..Len(runStack') : runStack'[k].suite # s
                 /\ \A k \in 1..Len(log') : log'[k].fn[2] # s \/ log'[k].fn[1] = "test"
                 /\ \A k \in 1..Len(returned') :
                       /\ s \notin Range(returned'[k].name)
                       /\ returned'[k].skipped =
                             Cardinality({i \in 1..Len(suites'[returned'[k].name[1]].tests) :
                                             suites'[returned'[k].name[1]].tests[i].skip})
      ]_vars

\* A run has returned the result of a suite that has a test, a test declared with skip
\* and a nested suite declared with describe.skip.
C23_Witness ==
    /\ runState = "returned"
    /\ \E k \in 1..Len(returned) :
          LET p == returned[k].name[1] IN
          /\ returned[k].skipped = 1
          /\ Len(returned[k].tests) = 2
          /\ \E c \in Range(suites[p].suites) : suites[c].skip

----------------------------------------------------------------------------
(* Claims about hooks                                                      *)

\* The positions of the log after p at which something was awaited for test n.
LaterFor(n, p) == {k \in LogFor(n) : k > p}

\* C24: when a before-each hook fails for a test, no further before-each hook and not
\* the body is awaited for that test; the after-each hooks of the suite are awaited
\* next, in declaration order, until one fails or all are done, before the TestResult is
\* recorded; the TestResult is passed = false with the error of the before-each hook;
\* the failure does not leave runTest, and when the run returns every later test of the
\* suite that is to be executed has been executed and reported.
C24_BeforeEachFailureFailsTheTest ==
    \A p \in 1..Len(log) :
        (log[p].fn[1] = "beforeEach" /\ log[p].outcome = "throws") =>
            LET n == log[p].test
                s == OwnerOf(n)
                after == suites[s].afterEach
                later == LaterFor(n, p)
            IN  /\ \A k \in LogFor(n) : ~IsBody(log[k])
                /\ Cardinality(later) <= Len(after)
                /\ \A k \in later :
                      /\ log[k].fn = after[k - p]
                      /\ k < p + Cardinality(later) => log[k].outcome = "ok"
                /\ \A r \in Recorded :
                      r.name = n =>
                          /\ ~r.passed /\ r.error = log[p].fn
                          /\ \/ Cardinality(later) = Len(after)
                             \/ log[p + Cardinality(later)].outcome = "throws"
                /\ (runState = "running" /\ \A r \in Recorded : r.name # n) =>
                      (Top.suite = s /\ CurrentTest.name = n)
                /\ runState = "thrown" => thrown # log[p].fn
                /\ runState = "returned" =>
                      /\ ReturnedFor(n) # {}
                      /\ \A u \in Range(suites[s].tests) :
                            (u.name > n /\ TestStep(u, HasOnly(suites[s])) = "run") =>
                                (LogFor(u.name) # {} /\ ReturnedFor(u.name) # {})

\* The before-each hook of a suite failed for its first test and completed for its
\* second test, whose body was executed.
C24_Witness ==
    /\ runState = "returned"
    /\ \E p, q \in 1..Len(log) :
          /\ p < q
          /\ log[p].fn[1] = "beforeEach" /\ log[p].outcome = "throws"
          /\ IsBody(log[q])
          /\ OwnerOf(log[q].test) = OwnerOf(log[p].test)

\* The positions of the log at which user function fn was awaited.
PositionsOf(fn) == {k \in 1..Len(log) : log[k].fn = fn}

\* The positions of the log at which something of suite s or of a suite nested in it
\* was awaited.
StartedIn(s) == {k \in 1..Len(log) : SuiteOf(log[k].fn) \in Under(s)}

\* Everything of suite c is done: its before-all hooks, its after-all hooks unless
\* c is the suite `but`, and a TestResult for each of its tests that is not omitted.
Completed(c, but) ==
    /\ \A h \in Range(suites[c].beforeAll) : PositionsOf(h) # {}
    /\ c # but => \A h \in Range(suites[c].afterAll) : PositionsOf(h) # {}
    /\ \A t \in Reported(c) : \E r \in Recorded : r.name = t.name

\* C25: on a run in which no before-all and no after-all hook has failed, for every
\* suite S: nothing of S is awaited unless S is selected; the before-all hooks of S are
\* the first things awaited for S, one after the other in declaration order, before any
\* test, before-each hook or nested suite of S; an after-all hook of S is awaited right
\* after the one declared before it, after everything else awaited in S, and only once
\* every selected suite nested in S is done and every test of them and of S that is not
\* omitted has its TestResult; no before-all or after-all hook is awaited twice, and
\* when the run returns each one of a selected suite has been awaited exactly once,
\* whether or not a test of the suite was executed.
C25_BeforeAllFirstAfterAllLast ==
    (\A k \in 1..Len(log) :
        log[k].fn[1] \in {"beforeAll", "afterAll"} => log[k].outcome = "ok") =>
    /\ \A owner \in {SuiteOf(log[k].fn) : k \in 1..Len(log)} :
          \A s \in AncestorsOrSelf(owner) : Selected(s)
    /\ \A s \in SuiteIds :
        LET before == suites[s].beforeAll
            after == suites[s].afterAll
            started == StartedIn(s)
        IN  (before # <<>> \/ after # <<>>) =>
            /\ \A h \in Range(before) \cup Range(after) : Cardinality(PositionsOf(h)) <= 1
            /\ \A k \in started :
                  LET n == Cardinality({j \in started : j <= k})
                  IN  /\ n <= Len(before) => log[k].fn = before[n]
                      /\ n > 1 /\ n <= Len(before) => log[k - 1].fn = before[n - 1]
            /\ \A a \in 1..Len(after) :
                  \A p \in PositionsOf(after[a]) :
                      /\ a > 1 => log[p - 1].fn = after[a - 1]
                      /\ \A k \in started : k > p => log[k].fn \in Range(after)
                      /\ \A c \in Under(s) : Selected(c) => Completed(c, s)
            /\ (runState = "returned" /\ Selected(s)) =>
                  \A h \in Range(before) \cup Range(after) : Cardinality(PositionsOf(h)) = 1

\* A run has returned in which a suite's before-all hook, the body of one of its tests
\* and its after-all hook were awaited, in this order.
C25_Witness ==
    /\ runState = "returned"
    /\ \E s \in SuiteIds :
          /\ suites[s].beforeAll # <<>> /\ suites[s].afterAll # <<>>
          /\ \E p, q, r \in 1..Len(log) :
                /\ p < q /\ q < r
                /\ log[p].fn = suites[s].beforeAll[1]
                /\ IsBody(log[q]) /\ SuiteOf(log[q].fn) = s
                /\ log[r].fn = suites[s].afterAll[1]

----------------------------------------------------------------------------
(* Claims about the counts of a SuiteResult                                *)

\* The suite a SuiteResult is the result of: the last name of its full name.
ResultOf(r) == r.name[Len(r.name)]

SkippedTests(s) == {t \in Range(suites[s].tests) : t.skip}

\* The positions of the flat test list of SuiteResult r that hold the record of test t.
EntriesOf(r, t) == {k \in 1..Len(r.tests) : r.tests[k].name = t.name}

\* C26: in every SuiteResult, skipped is the number of direct child tests of the suite
\* declared with skip, whatever the nested suites hold; each test declared with skip in
\* the suite or in a selected suite nested in it has exactly one entry in the flat test
\* list, with passed = true, so that it is counted by passed; a direct skipped test is
\* thus counted by skipped and by passed, a nested one by passed only.
C26_SkippedCountsDirectTests ==
    \A r \in Produced :
        LET s == ResultOf(r) IN
        /\ r.skipped = Cardinality(SkippedTests(s))
        /\ \A c \in SuiteIds :
              \A t \in SkippedTests(c) :
                  (c \in Under(s) /\ Selected(c)) =>
                      /\ Cardinality(EntriesOf(r, t)) = 1
                      /\ \A k \in EntriesOf(r, t) : r.tests[k].passed
        /\ r.passed = Cardinality({k \in 1..Len(r.tests) : r.tests[k].passed})

\* A run has returned the result of a top-level suite with one skipped test of its own
\* and one skipped test in a nested suite: skipped = 1, passed = 2.
C26_Witness ==
    /\ runState = "returned"
    /\ \E r \in Range(returned) :
          /\ r.skipped = 1 /\ r.passed = 2
          /\ \E c \in Under(ResultOf(r)) \ {ResultOf(r)} :
                \E t \in SkippedTests(c) : EntriesOf(r, t) # {}

----------------------------------------------------------------------------
(* Claims about the sequencing of a run                                    *)

\* C27: at most one user function, test body or hook, is in flight at any time, however
\* long it takes to settle, and it is the one the innermost runSuite is waiting for;
\* everything awaited for one test, its before-each hooks, its body and its after-each
\* hooks, has settled before anything of another test or of a suite is called, so what
\* is awaited for a test is not interleaved with anything else; and the body of a test
\* is called at most once in a run.
C27_OneFunctionInFlight ==
    /\ Cardinality(inFlight) <= 1
    /\ inFlight # {} => (AtCall /\ inFlight = {Callee})
    /\ \A a, c \in 1..Len(log) :
          (a < c /\ log[a].test # Null /\ log[a].test = log[c].test)
              => \A b \in a..c : log[b].test = log[a].test
    /\ \A f \in inFlight :
          f[1] \in {"beforeEach", "test", "afterEach"} =>
              \A k \in 1..Len(log) :
                  \/ log[k].test # CurrentTest.name
                  \/ \A j \in k..Len(log) : log[j].test = CurrentTest.name
    /\ \A p, q \in 1..Len(log) :
          (IsBody(log[p]) /\ log[p].fn = log[q].fn) => p = q
    /\ \A f \in inFlight : f[1] = "test" => PositionsOf(f) = {}

\* The body of the second test of a suite is in flight, after the body of the first
\* test has settled.
C27_Witness ==
    \E f \in inFlight :
        /\ f[1] = "test"
        /\ \E p \in 1..Len(log) :
              /\ IsBody(log[p])
              /\ log[p].fn # f
              /\ SuiteOf(log[p].fn) = SuiteOf(f)

\* C28: no step of a run changes the root registry, the tests, hooks, child suites or
\* flags of any suite, or the current-suite pointer; and a run started right after a
\* run has returned, with no registration and no clear in between, awaits something
\* for the same tests in the same order and, when it returns, has reported the same
\* suites with the same tests in the same order.
C28_RunLeavesRegistryUnchanged ==
    [][/\ (runState = "running" \/ runState' = "running") =>
              UNCHANGED <<suites, rootSuites, currentSuite>>
       /\ (runState' = "running" /\ previous'.any) =>
              IsPrefix(Executed', previous'.executed)
       /\ (runState' = "returned" /\ previous'.any) =>
              /\ Executed' = previous'.executed
              /\ NamesOf(returned') = previous'.reported]_vars

\* A second run has returned that, like the one before it, executed two tests.
C28_Witness ==
    /\ runState = "returned"
    /\ previous.any
    /\ Len(previous.executed) = 2
    /\ Len(Executed) = 2

----------------------------------------------------------------------------
(* Claims about the behaviour mutators                                     *)

\* C29: an invocation made after mockReturnValue(v), with no other behaviour mutator
\* and no mockReset in between, returns v, whatever the arguments and whatever the
\* behaviour was before, a one-shot override that no invocation had consumed included:
\* the behaviour returns v, and the caller gets v when the invocation completes.
C29_ReturnValueUntilNextMutator ==
    last.fixed.on =>
        /\ last.op \in {"execute", "call"} => last.behaved = Returned(last.fixed.value)
        /\ last.outcome.type # "pending" => last.outcome = Returned(last.fixed.value)

\* mockReturnValue(v) has replaced a one-shot override that no invocation had
\* consumed, and the invocation that followed has completed with v.
C29_Witness ==
    /\ last.op = "settle"
    /\ last.fixed.on /\ last.fixed.once
    /\ last.outcome = Returned(last.fixed.value)
    /\ script.mutators = 2
    /\ script.calls = 1

----------------------------------------------------------------------------
(* Claims about the mock server                                            *)

\* The recorders stored under name n in the Map of category c, and the recorders the
\* callable of the server under that name and category invokes.
MockOf(c, n) == {e[2] : e \in {x \in mockServer.mocks[c] : x[1] = n}}
CallableOf(c, n) == {e[2] : e \in {x \in mockServer.server[c] : x[1] = n}}

\* The invocations of recorder id made through the server so far, and those of them
\* that are suspended.
InvokedOn(id) == {k \in 1..Len(served.invoked) : served.invoked[k] = id}
WaitingOn(id) == {k \in 1..Len(waiting) : waiting[k].id = id}

Histories(m) == <<m.calls, m.returnValues, m.errors>>

\* Each name declared under a category has one recorder of that name, that no other
\* name or category shares, stored under the name in the Map of the category and
\* invoked by the callable under the same name in the same category of the server; a
\* name that is not declared has neither; and there is no other recorder.
OneRecorderPerName ==
    /\ \A c \in Range(Categories) :
          \A n \in Range(ServerNames) :
              IF n \in DOMAIN serverConfig[c]
                THEN /\ Cardinality(MockOf(c, n)) = 1
                     /\ CallableOf(c, n) = MockOf(c, n)
                     /\ \A id \in MockOf(c, n) :
                           /\ id \in 1..Len(recorders)
                           /\ recorders[id].name = n
                           /\ \A d \in Range(Categories) :
                                 \A o \in Range(ServerNames) :
                                     id \in MockOf(d, o) => (d = c /\ o = n)
                ELSE MockOf(c, n) = {} /\ CallableOf(c, n) = {}
    /\ \A id \in 1..Len(recorders) :
          \E c \in Range(Categories) :
              \E n \in Range(ServerNames) : id \in MockOf(c, n)

\* C30: createMockServer makes, for each name declared under a category, one recorder
\* of that name with empty histories, that no other name or category shares, stores it
\* under the name in the Map of the category and puts under the same name in the same
\* category of the server a callable that invokes this very recorder; a name that is
\* not declared under a category has neither a recorder nor a callable there.  An
\* invocation of a callable leaves the Maps, the callables and the histories of every
\* other recorder as they are and appends one CallRecord, with the arguments of the
\* invocation, to the call history of its recorder, at once or when the invocation
\* resumes after its await: each recorder holds one CallRecord for each of its
\* invocations that is not suspended.
C30_ServerRecordersAreSeparate ==
    [][/\ served'.op # "none" =>
             \A id \in 1..Len(recorders') :
                 Len(recorders'[id].calls)
                     = Cardinality(InvokedOn(id)') - Cardinality(WaitingOn(id)')
       /\ served'.op = "createMockServer" =>
             /\ OneRecorderPerName'
             /\ \A id \in 1..Len(recorders') :
                   Histories(recorders'[id]) = <<<<>>, <<>>, <<>>>>
       /\ served'.op \in {"call", "settle"} =>
             /\ UNCHANGED <<mockServer, serverConfig>>
             /\ Len(recorders') = Len(recorders)
             /\ \A id \in 1..Len(recorders) : recorders'[id].name = recorders[id].name
       /\ served'.op = "call" =>
             \A id \in MockOf(served'.category, served'.name) :
                 /\ \A other \in 1..Len(recorders) :
                       other # id => recorders'[other] = recorders[other]
                 /\ served'.invoked = Append(served.invoked, id)
                 /\ \/ /\ waiting' = waiting
                       /\ Len(recorders'[id].calls) = Len(recorders[id].calls) + 1
                       /\ recorders'[id].calls[Len(recorders'[id].calls)].args = served'.args
                       /\ IsPrefix(recorders[id].calls, recorders'[id].calls)
                    \/ /\ waiting' = Append(waiting, [id |-> id, args |-> served'.args,
                                                      awaited |-> Str("X")])
                       /\ recorders'[id] = recorders[id]
       /\ served'.op = "settle" =>
             LET id == waiting[1].id IN
             /\ \A other \in 1..Len(recorders) :
                   other # id => recorders'[other] = recorders[other]
             /\ recorders'[id].calls
                   = Append(recorders[id].calls,
                            [args |-> waiting[1].args, result |-> Str("X"),
                             error |-> Undefined])]_serverVars

\* Two tools are declared and name b is not declared under prompts; the callable of
\* one tool was invoked twice, and its recorder holds two CallRecords while the
\* recorder of the other tool holds none.
C30_Witness ==
    /\ served.op = "settle"
    /\ DOMAIN serverConfig["tools"] = {"a", "b"}
    /\ "b" \notin DOMAIN serverConfig["prompts"]
    /\ waiting = <<>>
    /\ \E id \in MockOf("tools", "a") : Len(recorders[id].calls) = 2
    /\ \E id \in MockOf("tools", "b") : recorders[id].calls = <<>>

----------------------------------------------------------------------------
(* Claims about the async projections                                      *)

\* What the matcher called last gives on the same object of the chain without the
\* negate modifier.
Unnegated ==
    LET plain == [chain[matcher.on] EXCEPT !.isNot = FALSE] IN
    CASE matcher.name = "resolves.toBe" -> ResolveExpect_toBe(plain, matcher.args[1])
      [] matcher.name = "resolves.toEqual" -> ResolveExpect_toEqual(plain, matcher.args[1])
      [] matcher.name = "rejects.toThrow" -> RejectExpect_toThrow(plain, matcher.args[1])
      [] matcher.name = "toThrow" -> toThrow(plain, matcher.args[1])

\* C31: the negate modifier inverts the matchers of the projections: on a promise that
\* resolves, expect(p).not.resolves.toBe(e) and expect(p).not.resolves.toEqual(e) pass
\* exactly when the forms without not fail, and on a promise that resolves or rejects
\* expect(p).not.rejects.toThrow(...) passes exactly when expect(p).rejects.toThrow(...)
\* fails.
C31_NotInvertsProjections ==
    (/\ matcher.name \in {"resolves.toBe", "resolves.toEqual", "rejects.toThrow"}
     /\ chain[matcher.on].isNot
     /\ matcher.name = "rejects.toThrow" \/ Fulfils(chain[matcher.on].promise))
        => (verdict = "pass" <=> Unnegated = "fail")

----------------------------------------------------------------------------
(* Claims about deep-equal                                                 *)

\* The own keys of a value, as a set.
KeySet(value) == {Keys(value)[i] : i \in 1..Len(Keys(value))}

NonNullObject(value) == TypeOf(value) = "object" /\ value.type # "null"

\* The two values are identity-equal, or both are non-null objects with the same set of
\* own keys whose values under each key are alike in turn.
RECURSIVE Alike(_, _)
Alike(a, b) ==
    \/ ObjectIs(a, b)
    \/ /\ NonNullObject(a) /\ NonNullObject(b)
       /\ KeySet(a) = KeySet(b)
       /\ \A key \in KeySet(a) : Alike(Get(a, key), Get(b, key))

\* C32: toEqual passes (fails, after not) exactly when subject and expected value are
\* identity-equal or both are non-null objects with the same own-key set and, under each
\* key, values that are deep-equal in turn; it fails when one object has a key the other
\* lacks; and deep-equal gives the same with its two arguments exchanged.
C32_DeepEqualIsStructural ==
    matcher.name = "toEqual" =>
        LET self == chain[matcher.on]
            a == self.value
            b == matcher.args[1]
        IN  /\ verdict = IF Alike(a, b) = ~self.isNot THEN "pass" ELSE "fail"
            /\ (NonNullObject(a) /\ NonNullObject(b) /\ KeySet(a) # KeySet(b)) =>
                  verdict = IF self.isNot THEN "pass" ELSE "fail"
            /\ deepEqual(a, b) = deepEqual(b, a)

\* expect({a: 1, b: {c: 2}}).toEqual({b: {c: 2}, a: 1}), of two different objects, has
\* passed.
C32_Witness ==
    /\ matcher.name = "toEqual"
    /\ verdict = "pass"
    /\ ~chain[matcher.on].isNot
    /\ chain[matcher.on].value.ref = 6
    /\ matcher.args[1].ref = 8

----------------------------------------------------------------------------
(* Claims about usage errors                                               *)

\* C33: toContain on a subject that is neither an array nor a string throws the usage
\* error 'toContain() requires an array or string' for every item, with and without
\* not: it never passes and never fails as an assertion.
C33_ContainsRequiresSequence ==
    (/\ matcher.name = "toContain"
     /\ chain[matcher.on].value.type \notin {"array", "string"}) => verdict = "usage"

\* expect({a: 1}).not.toContain(1) has thrown the usage error.
C33_Witness ==
    /\ matcher.name = "toContain"
    /\ chain[matcher.on].isNot
    /\ chain[matcher.on].value.type = "object"
    /\ matcher.args[1] = One
    /\ verdict = "usage"

----------------------------------------------------------------------------
(* Claims about the histories of the Call Recorder                         *)

\* The CallRecords that carry an error, and those that carry a result.
Carrying(calls) == SelectSeq(calls, LAMBDA call : call.error # Undefined)
Resulting(calls) == SelectSeq(calls, LAMBDA call : call.error = Undefined)

\* The three histories of a recorder agree: as many CallRecords as return values and
\* errors together, the error history is the errors of the records in order, and the
\* return-value history the results of the records without an error.
Balanced(m) ==
    /\ Len(m.calls) = Len(m.returnValues) + Len(m.errors)
    /\ m.errors = [k \in 1..Len(Carrying(m.calls)) |-> Carrying(m.calls)[k].error]
    /\ m.returnValues = [k \in 1..Len(Resulting(m.calls)) |-> Resulting(m.calls)[k].result]

----------------------------------------------------------------------------
(* Claims about suspended invocations of the Call Recorder                 *)

\* expect(mock).toHaveBeenCalled()
WasCalled(m) == toHaveBeenCalled(ExpectImpl(MockObject(100, m), FALSE))

\* The suspended invocations, as the recorder holds them.
InFlight(invocations) ==
    [k \in 1..Len(invocations) |-> [invocations[k] EXCEPT !.cleared = FALSE]]

----------------------------------------------------------------------------
(* Claims about several one-shot overrides                                 *)

\* What the n-th invocation gets from a recorder on which mockReturnValueOnce was
\* applied with the values of `registered`, in that order, in front of `base`.
LastRegisteredFirst(registered, base, n, args) ==
    IF n <= Len(registered)
      THEN Returned(registered[Len(registered) - n + 1])
      ELSE InvokeIfAny(base, args).completion

\* C36: when mockReturnValueOnce is applied k times with v1, ..., vk before any
\* invocation and no other mutator follows, the behaviour returns vk to the first
\* invocation, v(k-1) to the second, ..., v1 to the k-th, and does for every later
\* invocation what the behaviour configured before the first mockReturnValueOnce
\* does; the CallRecords of the first k invocations, once they have settled, carry
\* these values in this order.
C36_OnceValuesLastFirst ==
    LET registered == shadow.registered
        k == Len(registered)
    IN
    k > 0 =>
        /\ last.op \in {"execute", "call"} =>
              last.behaved = LastRegisteredFirst(registered, shadow.base, script.calls,
                                                 last.args)
        /\ script.mutators = k =>
              /\ \A n \in 1..Len(mock.calls) :
                    (n <= k /\ script.calls <= k) =>
                        /\ mock.calls[n].result = registered[k - n + 1]
                        /\ mock.returnValues[n] = registered[k - n + 1]
              /\ (pending = <<>> /\ script.calls <= k) => Len(mock.calls) = script.calls

\* Two different values were registered before any invocation; the first two
\* invocations have been recorded with the second value and then the first, and the
\* third has just failed as the behaviour of the constructor does without arguments.
C36_Witness ==
    /\ Len(shadow.registered) = 2
    /\ shadow.registered[1] # shadow.registered[2]
    /\ shadow.base.kind = "strict"
    /\ script.calls = 3
    /\ last.op = "execute"
    /\ last.behaved = Thrown(Error("missing"))
    /\ Len(mock.calls) = 3
    /\ mock.calls[1].result = shadow.registered[2]
    /\ mock.calls[2].result = shadow.registered[1]

----------------------------------------------------------------------------
(* Claims about the two passes over the after-each hooks                   *)

\* The least of a non-empty set of positions.
Earliest(positions) == CHOOSE k \in positions : \A l \in positions : k <= l

\* The positions after p at which a user function awaited for test n failed.
FailuresFor(n, p) == {k \in LaterFor(n, p) : log[k].outcome = "throws"}

\* How often hook was awaited for test n after position p.
TimesAwaited(hook, n, p) == Cardinality({k \in LaterFor(n, p) : log[k].fn = hook})

\* C37 as stated: when the body of a test succeeds and an after-each hook then fails,
\* the test is reported passed = false with that hook's error, and every hook
\* declared before the failing one has been awaited twice for the test.
C37_EarlierHooksRunTwice ==
    \A p \in 1..Len(log) :
        (IsBody(log[p]) /\ log[p].outcome = "ok" /\ FailuresFor(log[p].test, p) # {}) =>
            LET n == log[p].test
                after == suites[OwnerOf(n)].afterEach
                failing == Earliest(FailuresFor(n, p)) - p
            IN  \A r \in Recorded :
                   r.name = n =>
                       /\ ~r.passed /\ r.error = after[failing]
                       /\ \A k \in 1..(failing - 1) : TimesAwaited(after[k], n, p) = 2

\* C37: when the body of a test succeeds, the after-each hooks of its suite are
\* awaited in declaration order; when none fails the test is reported passed = true;
\* when one fails no later hook is awaited in that pass, the test is reported
\* passed = false with that hook's error, and before that the after-each list is
\* awaited a second time from its beginning, in declaration order, up to and including
\* the first hook that fails in this second pass: the first hook is always awaited
\* twice, a later one only when every hook before it completed the second time.
C37_AfterEachFailureRestartsTheList ==
    \A p \in 1..Len(log) :
        (IsBody(log[p]) /\ log[p].outcome = "ok") =>
            LET n == log[p].test
                after == suites[OwnerOf(n)].afterEach
                m == Len(after)
                awaited == Cardinality(LaterFor(n, p))
                failures == FailuresFor(n, p)
            IN  /\ LaterFor(n, p) = (p + 1)..(p + awaited)
                /\ failures = {} =>
                      /\ awaited <= m
                      /\ \A k \in 1..awaited : log[p + k].fn = after[k]
                      /\ \A r \in Recorded : r.name = n => (r.passed /\ awaited = m)
                /\ failures # {} =>
                      LET q == Earliest(failures)
                          failing == q - p
                          again == awaited - failing
                      IN  /\ failing <= m
                          /\ \A k \in 1..failing : log[p + k].fn = after[k]
                          /\ again <= m
                          /\ \A k \in 1..again :
                                /\ log[q + k].fn = after[k]
                                /\ k < again => log[q + k].outcome = "ok"
                          /\ \A r \in Recorded :
                                r.name = n =>
                                    /\ ~r.passed /\ r.error = after[failing]
                                    /\ again >= 1
                                    /\ again = m \/ log[q + again].outcome = "throws"

\* A test is reported whose body succeeded and whose third after-each hook failed,
\* after which the first hook failed in the second pass: the second hook was awaited
\* once for it.
C37_Witness ==
    \E p \in 1..Len(log) :
        LET n == log[p].test
            after == suites[OwnerOf(n)].afterEach
        IN  /\ IsBody(log[p]) /\ log[p].outcome = "ok"
            /\ FailuresFor(n, p) = {p + 3, p + 4}
            /\ TimesAwaited(after[1], n, p) = 2
            /\ TimesAwaited(after[2], n, p) = 1
            /\ \E r \in Recorded : r.name = n /\ r.error = after[3]

----------------------------------------------------------------------------
(* Claims about hooks and nested suites                                    *)

IsEachHook(fn) == fn[1] \in {"beforeEach", "afterEach"}

\* C38: before-each and after-each hooks are not inherited by nested suites.  Every
\* such hook is awaited on behalf of a test, and that test was declared in the body
\* of the very suite the hook was registered on: around a test of a nested suite only
\* the hooks of that nested suite are awaited, never one of an enclosing suite.
C38_EachHooksNotInherited ==
    /\ \A k \in 1..Len(log) :
          IsEachHook(log[k].fn) =>
              /\ log[k].test # Null
              /\ SuiteOf(log[k].fn) = OwnerOf(log[k].test)
    /\ \A k \in 1..Len(log) :
          log[k].test # Null =>
              LET owner == suites[OwnerOf(log[k].test)] IN
              \/ log[k].fn = TestNamed(log[k].test).fn
              \/ log[k].fn \in Range(owner.beforeEach) \cup Range(owner.afterEach)

\* The test of a nested suite has been executed and reported, and the before-each or
\* after-each hook of the enclosing suite has not been awaited in this run.
C38_Witness ==
    /\ runState = "returned"
    /\ \E p \in 1..Len(log) :
          LET nested == OwnerOf(log[p].test)
              parent == ParentOf(nested)
          IN  /\ IsBody(log[p])
              /\ parent # Null
              /\ suites[parent].beforeEach \o suites[parent].afterEach # <<>>
              /\ ReturnedFor(log[p].test) # {}
              /\ \A k \in 1..Len(log) : ~IsEachHook(log[k].fn)

----------------------------------------------------------------------------
(* Claims about the cleanup pass                                           *)

\* What was awaited at position p of the log is the body of a test or a before-each
\* hook, and it failed.
FailsBeforeAfterEach(p) ==
    /\ IsBody(log[p]) \/ log[p].fn[1] = "beforeEach"
    /\ log[p].outcome = "throws"

\* C39: after a test body or a before-each hook has failed for a test, the after-each
\* hooks of the suite are awaited in declaration order up to and including the first
\* of them that fails, and no hook declared after that one is awaited for the test;
\* the error of that hook is discarded: the TestResult is passed = false with the
\* error of the body or before-each hook, nothing is thrown out of the run, and when
\* the run returns every following test of the suite has been executed, starting
\* with its first before-each hook or, without one, its body, and reported.
C39_CleanupStopsAtFirstFailure ==
    \A p \in 1..Len(log) :
        FailsBeforeAfterEach(p) =>
            LET n == log[p].test
                s == OwnerOf(n)
                after == suites[s].afterEach
                awaited == Cardinality(LaterFor(n, p))
            IN  /\ LaterFor(n, p) = (p + 1)..(p + awaited)
                /\ awaited <= Len(after)
                /\ \A k \in 1..awaited :
                      /\ log[p + k].fn = after[k]
                      /\ log[p + k].outcome = "throws" =>
                            /\ k = awaited
                            /\ \A l \in (k + 1)..Len(after) :
                                  TimesAwaited(after[l], n, p) = 0
                /\ \A r \in Recorded :
                      r.name = n =>
                          /\ ~r.passed /\ r.error = log[p].fn
                          /\ \/ awaited = Len(after)
                             \/ log[p + awaited].outcome = "throws"
                /\ runState = "thrown" => thrown \notin Range(after) \cup {log[p].fn}
                /\ runState = "returned" =>
                      \A u \in Range(suites[s].tests) :
                          (u.name > n /\ TestStep(u, HasOnly(suites[s])) = "run") =>
                              /\ ReturnedFor(u.name) # {}
                              /\ \E q \in LogFor(u.name) :
                                    /\ \A k \in LogFor(u.name) : q <= k
                                    /\ log[q].fn = IF suites[s].beforeEach # <<>>
                                                     THEN suites[s].beforeEach[1]
                                                     ELSE u.fn

\* The before-each hook failed for the first test of a suite with three after-each
\* hooks; the first of them completed, the second failed and the third was not
\* awaited; the body of the second test was executed afterwards and the run returned.
C39_Witness ==
    /\ runState = "returned"
    /\ \E p, q \in 1..Len(log) :
          LET n == log[p].test
              after == suites[OwnerOf(n)].afterEach
          IN  /\ log[p].fn[1] = "beforeEach" /\ log[p].outcome = "throws"
              /\ Len(after) = 3
              /\ LaterFor(n, p) = {p + 1, p + 2}
              /\ log[p + 1].outcome = "ok"
              /\ log[p + 2] = [fn |-> after[2], test |-> n, outcome |-> "throws"]
              /\ q > p + 2
              /\ IsBody(log[q]) /\ log[q].outcome = "ok"
              /\ \E r \in Range(returned[1].tests) : r.name = log[q].test /\ r.passed

----------------------------------------------------------------------------
(* Claims about toThrow                                                    *)

\* The expected-error argument is a string, a pattern or an error instance.
IsExpectedError(error) == error.type \in {"string", "RegExp", "Error"}

\* C40 as stated: toThrow on a callable that does not raise fails whenever the
\* expected-error argument is a string, a pattern or an error instance; with an
\* argument of any other kind it passes, whether the callable raised or not, with and
\* without not.
C40_ThrowsFailsWithoutRaise ==
    (matcher.name = "toThrow" /\ TypeOf(chain[matcher.on].value) = "function") =>
        LET self == chain[matcher.on]
            error == matcher.args[1]
        IN  /\ (~Throws(self.value) /\ IsExpectedError(error)) => verdict = "fail"
            /\ (error # Undefined /\ ~IsExpectedError(error)) => verdict = "pass"

\* C40: toThrow on a callable that does not raise, given a string, a pattern or an
\* error instance as expected error, fails without not and passes after not; given an
\* argument of any other kind (an error class, a number) it evaluates no assertion
\* and passes, whether the callable raised or not, with and without not.
C40_ThrowsNeedsARaise ==
    (matcher.name = "toThrow" /\ TypeOf(chain[matcher.on].value) = "function") =>
        LET self == chain[matcher.on]
            error == matcher.args[1]
        IN  /\ (~Throws(self.value) /\ IsExpectedError(error)) =>
                  verdict = IF self.isNot THEN "pass" ELSE "fail"
            /\ (error # Undefined /\ ~IsExpectedError(error)) => verdict = "pass"

\* expect(() => 1).not.toThrow("boom") has passed.
C40_Witness ==
    /\ matcher.name = "toThrow"
    /\ chain[matcher.on].isNot
    /\ TypeOf(chain[matcher.on].value) = "function"
    /\ ~Throws(chain[matcher.on].value)
    /\ matcher.args = <<Str("boom")>>
    /\ verdict = "pass"

====
